---- MODULE Spec2Model ----
(***************************************************************************)
(* Model of the BudgetMaster ledger: the Express/PostgreSQL backend        *)
(* (src/server/index.js), the browser's ApiService (src/src/services/      *)
(* api.ts) and the React AccountContext with the components that call it.  *)
(*                                                                         *)
(* The database is modelled at the level the handlers use it: committed    *)
(* tables, pooled pg clients each with an optional open transaction whose  *)
(* writes are pending (invisible to other clients, holding row locks)      *)
(* until COMMIT or ROLLBACK, and the pool's idle stack.  Each await of a    *)
(* handler or of a context function that can block or interleave is one    *)
(* step.                                                                   *)
(***************************************************************************)
EXTENDS Integers, Sequences, FiniteSets, TLC

\* SQL NULL / JavaScript undefined, for text values and for numeric values.
NULL == "NULL"
NoInt == -1000

\* ---------------------------------------------------------------- bounds
PoolMax == 2          \* pg clients the pool may open
MaxRequests == 3      \* HTTP requests issued in one behaviour
MaxInFlight == 3      \* requests being served at the same time
MaxTasks == 3         \* async functions in progress in the browser
MaxSteps == 2         \* steps a date is put through
MaxCalls == 2         \* handlers the user sets off in one behaviour

AccountIds == {"a1", "a2"}
TxIds == {"t1", "t2", "t3"}
RpIds == {"r1", "r2"}
DebtIds == {"d1"}
ConnIds == 1..PoolMax
ReqIds == 1..MaxInFlight
Amounts == {300, 800}     \* money is counted in hundredths, DECIMAL(10,2)
TxTypes == {"income", "expense", "transfer"}
Frequencies == {"weekly", "monthly", "yearly"}

\* ------------------------------------------------------- finite maps
Empty == [x \in {} |-> NULL]
Put(f, k, v) == [x \in (DOMAIN f) \cup {k} |-> IF x = k THEN v ELSE f[x]]
Del(f, k) == [x \in (DOMAIN f) \ {k} |-> f[x]]

RECURSIVE SumOver(_, _)
SumOver(S, f) ==
    IF S = {} THEN 0
    ELSE LET x == CHOOSE y \in S : TRUE IN f[x] + SumOver(S \ {x}, f)

\* ---------------------------------------------------- calendar (JS Date)
\* A DATE column is a day number; day 0 is the first of January of BaseYear.
\* A JavaScript Date is an instant, counted in hours from that day's 00:00 UTC.
Years == 2023..2026
BaseYear == CHOOSE y \in Years : \A z \in Years : y <= z

IsLeap(y) == (y % 4 = 0 /\ y % 100 # 0) \/ y % 400 = 0

DaysInMonth(y, m) ==
    IF m = 2 THEN (IF IsLeap(y) THEN 29 ELSE 28)
    ELSE IF m \in {4, 6, 9, 11} THEN 30 ELSE 31

RECURSIVE DaysBeforeYear(_)
DaysBeforeYear(y) ==
    IF y <= BaseYear THEN 0
    ELSE DaysBeforeYear(y - 1) + (IF IsLeap(y - 1) THEN 366 ELSE 365)

RECURSIVE DaysBeforeMonth(_, _)
DaysBeforeMonth(y, m) ==
    IF m <= 1 THEN 0 ELSE DaysBeforeMonth(y, m - 1) + DaysInMonth(y, m - 1)

\* ECMAScript MakeDay: month and day may lie outside their ranges and carry over.
MakeDay(y, m, d) ==
    LET yy == y + ((m - 1) \div 12)
        mm == ((m - 1) % 12) + 1
    IN  DaysBeforeYear(yy) + DaysBeforeMonth(yy, mm) + d - 1

YMD(n) ==
    LET y == CHOOSE yy \in Years : DaysBeforeYear(yy) <= n /\ n < DaysBeforeYear(yy + 1)
        m == CHOOSE mm \in 1..12 :
                 /\ MakeDay(y, mm, 1) <= n
                 /\ n < MakeDay(y, mm, 1) + DaysInMonth(y, mm)
    IN  [y |-> y, m |-> m, d |-> n - MakeDay(y, m, 1) + 1]

DateOf(y, m, d) == MakeDay(y, m, d)

\* new Date(y, m, d) in a zone tz hours east of UTC, and the Date's readers.
LocalMidnight(n, tz) == n * 24 - tz
LocalDay(i, tz) == (i + tz) \div 24
LocalHour(i, tz) == (i + tz) % 24
\* date.toISOString().split('T')[0]
IsoDate(i) == i \div 24

\* setDate(getDate() + k), setMonth(getMonth() + k), setFullYear(getFullYear() + k)
\* on a Date in zone tz: local fields change, the local time of day is kept.
SetDatePlus(i, k, tz) ==
    LET f == YMD(LocalDay(i, tz))
    IN  MakeDay(f.y, f.m, f.d + k) * 24 + LocalHour(i, tz) - tz
SetMonthPlus(i, k, tz) ==
    LET f == YMD(LocalDay(i, tz))
    IN  MakeDay(f.y, f.m + k, f.d) * 24 + LocalHour(i, tz) - tz
SetFullYearPlus(i, k, tz) ==
    LET f == YMD(LocalDay(i, tz))
    IN  MakeDay(f.y + k, f.m, f.d) * 24 + LocalHour(i, tz) - tz

\* ------------------------------------------------------------- database
\* (tables of initializeTables; a row is a record, a table a map from primary key)
Tables == {"accounts", "transactions", "recurring_payments", "debts"}
EmptyW == [t \in Tables |-> Empty]
EmptyD == [t \in Tables |-> {}]

AccountRow(name, type, balance, order) ==
    [name |-> name, type |-> type, balance |-> balance, order |-> order]
TransactionRow(account_id, amount, type, recurring_payment_id) ==
    [account_id |-> account_id, amount |-> amount, type |-> type,
     recurring_payment_id |-> recurring_payment_id]
RecurringPaymentRow(name, amount, frequency, type, next_payment_date, account_id) ==
    [name |-> name, amount |-> amount, frequency |-> frequency, type |-> type,
     next_payment_date |-> next_payment_date, account_id |-> account_id]
DebtRow(name, type, balance, credit_limit) ==
    [name |-> name, type |-> type, balance |-> balance, credit_limit |-> credit_limit]

\* A pg client: not yet opened, idle in the pool, checked out by a running handler,
\* or checked out by a handler that ended without release().  inTxn: a BEGIN without
\* COMMIT/ROLLBACK; w and d: the rows written and deleted in that open transaction.
NewClient == [st |-> "absent", inTxn |-> FALSE, aborted |-> FALSE, w |-> EmptyW, d |-> EmptyD]

\* What a statement run on client cl reads (READ COMMITTED: committed rows and its own).
ViewT(d, cl, t) ==
    LET keys == ((DOMAIN d[t]) \cup (DOMAIN cl.w[t])) \ cl.d[t]
    IN  [k \in keys |-> IF k \in DOMAIN cl.w[t] THEN cl.w[t][k] ELSE d[t][k]]

\* INSERT/UPDATE and DELETE of one row: pending inside a transaction, else autocommit.
WriteRow(d, cl, t, k, row) ==
    IF cl.inTxn
    THEN [db |-> d, cl |-> [cl EXCEPT !.w[t] = Put(@, k, row), !.d[t] = @ \ {k}]]
    ELSE [db |-> [d EXCEPT ![t] = Put(@, k, row)], cl |-> cl]
DeleteRow(d, cl, t, k) ==
    IF cl.inTxn
    THEN [db |-> d, cl |-> [cl EXCEPT !.w[t] = Del(@, k), !.d[t] = @ \cup {k}]]
    ELSE [db |-> [d EXCEPT ![t] = Del(@, k)], cl |-> cl]

Begin(cl) == [cl EXCEPT !.inTxn = TRUE]
Commit(d, cl) ==
    [db |-> IF cl.aborted THEN d ELSE [t \in Tables |-> ViewT(d, cl, t)],
     cl |-> [cl EXCEPT !.inTxn = FALSE, !.aborted = FALSE, !.w = EmptyW, !.d = EmptyD]]
\* a ROLLBACK that ends the transaction and keeps what it wrote
RollbackKept(cl) == [cl EXCEPT !.inTxn = FALSE, !.aborted = FALSE]
Rollback(cl) == [cl EXCEPT !.inTxn = FALSE, !.aborted = FALSE, !.w = EmptyW, !.d = EmptyD]
\* A statement that raised an error: inside a transaction the transaction is aborted.
Failed(cl) == [cl EXCEPT !.aborted = cl.inTxn]

VARIABLES
    db,         \* committed rows of every table
    relations,  \* the tables that exist in the database
    clients,    \* the pool's pg clients
    idle,       \* the pool's idle clients, most recently released last
    reqs,       \* HTTP requests: route, body, handler position, response status
    issued,     \* how many requests were sent so far
    tzServer,   \* the server process's zone, hours east of UTC
    opening,    \* per account: balance less the signed sum of its stored transactions,
                \* as of server start
    backendUp,  \* the browser reaches the server
    offline,    \* ApiService.useOfflineMode
    ui,         \* AccountProvider's state: accounts, debts, transactions, recurringPayments
    tasks,      \* the async functions in progress in the browser, each a stack of frames
    made,       \* ids drawn so far by Math.random().toString(36)
    tzClient,   \* the browser's zone, hours east of UTC
    trial,      \* a date put through the date arithmetic: the date, the steps, the result
    calls       \* how many handlers the user has set off

\* no date is being tried
NoTrial == [date |-> NoInt, frequency |-> NULL, steps |-> <<>>, now |-> NoInt]
app == <<backendUp, offline, ui, tasks, made, tzClient, trial, calls>>
vars == <<db, relations, clients, idle, reqs, issued, tzServer, opening, backendUp, offline, ui,
          tasks, made, tzClient, trial, calls>>

\* ------------------------------------------------------------- pg Pool
\* pool.connect(): the idle client released last, else a new client while fewer than
\* the maximum are open, else the caller waits (0).
NextClient ==
    IF Len(idle) > 0 THEN idle[Len(idle)]
    ELSE IF \E c \in ConnIds : clients[c].st = "absent"
         THEN CHOOSE c \in ConnIds :
                  clients[c].st = "absent" /\ \A o \in ConnIds : clients[o].st = "absent" => c <= o
         ELSE 0
IdleWithout(c) == SelectSeq(idle, LAMBDA x : x # c)
\* a row some other client's open transaction has written or deleted
LockedByOther(c, t, k) ==
    \E o \in ConnIds \ {c} : k \in (DOMAIN clients[o].w[t]) \cup clients[o].d[t]

\* a row some other client's open transaction has deleted: a foreign key naming it waits
DeletedByOther(c, t, k) == \E o \in ConnIds \ {c} : k \in clients[o].d[t]
\* a recurring payment some other client's open transaction names in a row it wrote
NamedByOther(c, p) ==
    \E o \in ConnIds \ {c} : \E t \in DOMAIN clients[o].w["transactions"] :
        clients[o].w["transactions"][t].recurring_payment_id = p

NoReq == [route |-> "none", pc |-> "none", status |-> 0, client |-> 0, body |-> Empty,
          tx |-> Empty, seq |-> 0, pre |-> Empty, fail |-> "none", owner |-> 0, resp |-> Empty]
InFlight == {i \in ReqIds : reqs[i].route # "none" /\ reqs[i].pc # "done"}
Respond(r, status) == [r EXCEPT !.pc = "done", !.status = status]

\* The record keeps the requests in flight and the one answered last; a new request
\* takes a slot no request in flight holds, the answered request before the last one
\* is dropped from the record.
Answered == {i \in ReqIds : reqs[i].pc \in {"none", "done"} /\ reqs[i].owner = 0}
LastAnswered(i) == reqs[i].pc = "done" /\ \A j \in ReqIds : reqs[j].pc = "done" => reqs[j].seq <= reqs[i].seq
NextReq == CHOOSE i \in Answered : \A j \in Answered : reqs[i].seq <= reqs[j].seq
CanIssue(limit) == issued < MaxRequests /\ Answered # {} /\ Cardinality(InFlight) < limit
Issued(route, body, pre, owner) ==
    [j \in ReqIds |->
        IF j = NextReq
        THEN [NoReq EXCEPT !.route = route, !.pc = "start", !.body = body,
                           !.seq = issued + 1, !.pre = pre, !.owner = owner]
        ELSE IF reqs[j].pc = "done" /\ reqs[j].owner = 0 /\ ~LastAnswered(j)
             THEN NoReq ELSE reqs[j]]
Issue(route, body, pre, owner) ==
    /\ reqs' = Issued(route, body, pre, owner)
    /\ issued' = issued + 1
    /\ UNCHANGED <<db, relations, clients, idle, tzServer, opening>>


\* const { key } = req.body: a key the body does not have reads undefined, which pg
\* sends as NULL
Field(body, key) == IF key \in DOMAIN body THEN body[key] ELSE NULL
FieldN(body, key) == IF key \in DOMAIN body THEN body[key] ELSE NoInt

\* ----------------------------------------- POST /api/transactions (index.js 485-507)
\* line 487
PostTransactionBody(body) ==
    [id |-> Field(body, "id"), account_id |-> Field(body, "account_id"),
     amount |-> FieldN(body, "amount"), type |-> Field(body, "type"),
     recurring_payment_id |-> Field(body, "recurring_payment_id")]
\* the balance change of line 497
balanceChange(type, amount) == IF type = "income" THEN amount ELSE 0 - amount

InsertTransactionOk(d, cl, b) ==
    /\ ~cl.aborted
    /\ "transactions" \in relations
    /\ b.id # NULL /\ b.amount # NoInt /\ b.type # NULL
    /\ b.id \notin DOMAIN ViewT(d, cl, "transactions")
    /\ b.account_id # NULL => b.account_id \in DOMAIN ViewT(d, cl, "accounts")
    /\ b.recurring_payment_id # NULL =>
           b.recurring_payment_id \in DOMAIN ViewT(d, cl, "recurring_payments")

\* pool.connect(), BEGIN, INSERT INTO transactions (lines 489-495)
PostTransaction_Insert(i) ==
    LET r == reqs[i]
        b == PostTransactionBody(r.body)
        c == NextClient
    IN  /\ r.route = "POST /api/transactions" /\ r.pc = "start"
        /\ c # 0
        /\ b.id = NULL \/ ~LockedByOther(c, "transactions", b.id)
        /\ b.account_id = NULL \/ ~DeletedByOther(c, "accounts", b.account_id)
        /\ b.recurring_payment_id = NULL
              \/ ~DeletedByOther(c, "recurring_payments", b.recurring_payment_id)
        /\ idle' = IdleWithout(c)
        /\ LET cl == [clients[c] EXCEPT !.st = "busy"]
           IN  IF cl.aborted \/ ~InsertTransactionOk(db, Begin(cl), b)
               THEN \* the query rejects: catch answers 500; no ROLLBACK, no release
                    /\ clients' = [clients EXCEPT ![c] =
                                      [Failed(Begin(cl)) EXCEPT !.st = "leaked"]]
                    /\ reqs' = [reqs EXCEPT ![i] = [Respond(r, 500) EXCEPT !.client = c]]
               ELSE /\ clients' = [clients EXCEPT ![c] =
                           WriteRow(db, Begin(cl), "transactions", b.id,
                               TransactionRow(b.account_id, b.amount, b.type,
                                              b.recurring_payment_id)).cl]
                    /\ reqs' = [reqs EXCEPT ![i].pc = "update", ![i].client = c]
        /\ UNCHANGED <<db, relations, issued, tzServer, opening>> /\ UNCHANGED app

\* UPDATE accounts SET balance = balance + $1 (lines 497-501), then line 503 reads the
\* undeclared name result: ReferenceError, caught at 504: status 500.  The handler has
\* no COMMIT, no ROLLBACK and no client.release().
PostTransaction_Update(i) ==
    LET r == reqs[i]
        b == PostTransactionBody(r.body)
        c == r.client
        cl == clients[c]
        accts == ViewT(db, cl, "accounts")
    IN  /\ r.route = "POST /api/transactions" /\ r.pc = "update"
        /\ b.account_id \in DOMAIN accts => ~LockedByOther(c, "accounts", b.account_id)
        /\ clients' = [clients EXCEPT ![c] =
               [(IF b.account_id \in DOMAIN accts
                 THEN WriteRow(db, cl, "accounts", b.account_id,
                          [accts[b.account_id] EXCEPT
                              !.balance = @ + balanceChange(b.type, b.amount)]).cl
                 ELSE cl) EXCEPT !.st = "leaked"]]
        /\ reqs' = [reqs EXCEPT ![i] = Respond(r, 500)]
        /\ UNCHANGED <<db, relations, idle, issued, tzServer, opening>> /\ UNCHANGED app

\* ---------------------------- DELETE /api/transactions/:id (index.js 510-558)
Release(cl) == [st |-> "idle", inTxn |-> cl.inTxn, aborted |-> cl.aborted, w |-> cl.w, d |-> cl.d]

\* lines 535-542: the payment's date one period earlier, as the string sent to the UPDATE
previousDate(next_payment_date, frequency, tz) ==
    LET d0 == LocalMidnight(next_payment_date, tz)
        d1 == IF frequency = "weekly" THEN SetDatePlus(d0, 0 - 7, tz) ELSE d0
        d2 == IF frequency = "monthly" THEN SetMonthPlus(d1, 0 - 1, tz) ELSE d1
        d3 == IF frequency = "yearly" THEN SetFullYearPlus(d2, 0 - 1, tz) ELSE d2
    IN  IsoDate(d3)

\* pool.connect(), BEGIN, SELECT the transaction (lines 512-521).  With no such row the
\* handler answers 404 and finally releases the client, its BEGIN still open.
DeleteTransaction_Select(i) ==
    LET r == reqs[i]
        c == NextClient
    IN  /\ r.route = "DELETE /api/transactions/:id" /\ r.pc = "start"
        /\ c # 0
        /\ LET cl == Begin(clients[c])
               txs == ViewT(db, cl, "transactions")
           IN  IF cl.aborted \/ "transactions" \notin relations
               THEN \* a query rejects: catch runs ROLLBACK, answers 500, finally releases
                    /\ clients' = [clients EXCEPT ![c] = Release(Rollback(cl))]
                    /\ idle' = Append(IdleWithout(c), c)
                    /\ reqs' = [reqs EXCEPT ![i] = Respond(r, 500)]
               ELSE IF r.body.id \notin DOMAIN txs
               THEN /\ clients' = [clients EXCEPT ![c] = Release(cl)]
                    /\ idle' = Append(IdleWithout(c), c)
                    /\ reqs' = [reqs EXCEPT ![i] = Respond(r, 404)]
               ELSE /\ clients' = [clients EXCEPT ![c] = [cl EXCEPT !.st = "busy"]]
                    /\ idle' = IdleWithout(c)
                    /\ reqs' = [reqs EXCEPT ![i].pc = "reverse", ![i].client = c,
                                            ![i].tx = txs[r.body.id]]
        /\ UNCHANGED <<db, relations, issued, tzServer, opening>> /\ UNCHANGED app

\* a reversal that leaves the balance as it is
reversedBalanceKept(balance, tx) == balance
\* the balance after lines 523-528 undo transaction tx
reversedBalance(balance, tx) ==
    IF tx.type = "income" THEN balance - tx.amount
    ELSE IF tx.type = "expense" THEN balance + tx.amount
    ELSE balance

\* lines 523-528: reverse the balance change on the account
DeleteTransaction_Reverse(i) ==
    LET r == reqs[i]
        c == r.client
        cl == clients[c]
        accts == ViewT(db, cl, "accounts")
        a == r.tx.account_id
        touches == r.tx.type \in {"income", "expense"} /\ a \in DOMAIN accts
    IN  /\ r.route = "DELETE /api/transactions/:id" /\ r.pc = "reverse"
        /\ touches => ~LockedByOther(c, "accounts", a)
        /\ clients' = [clients EXCEPT ![c] =
               IF touches
               THEN WriteRow(db, cl, "accounts", a,
                        [accts[a] EXCEPT !.balance = reversedBalance(@, r.tx)]).cl
               ELSE cl]
        /\ reqs' = [reqs EXCEPT ![i].pc = "payment"]
        /\ UNCHANGED <<db, relations, idle, issued, tzServer, opening>> /\ UNCHANGED app

\* lines 530-544: move the linked recurring payment's date back one period
DeleteTransaction_Payment(i) ==
    LET r == reqs[i]
        c == r.client
        cl == clients[c]
        rps == ViewT(db, cl, "recurring_payments")
        p == r.tx.recurring_payment_id
        touches == p # NULL /\ p \in DOMAIN rps
    IN  /\ r.route = "DELETE /api/transactions/:id" /\ r.pc = "payment"
        /\ touches => ~LockedByOther(c, "recurring_payments", p)
        /\ clients' = [clients EXCEPT ![c] =
               IF touches
               THEN WriteRow(db, cl, "recurring_payments", p,
                        [rps[p] EXCEPT !.next_payment_date =
                            previousDate(@, rps[p].frequency, tzServer)]).cl
               ELSE cl]
        /\ reqs' = [reqs EXCEPT ![i].pc = "delete"]
        /\ UNCHANGED <<db, relations, idle, issued, tzServer, opening>> /\ UNCHANGED app

\* lines 546-550 and 555-557: DELETE the row, COMMIT, 204, release
DeleteTransaction_Commit(i) ==
    LET r == reqs[i]
        c == r.client
        done == Commit(db, DeleteRow(db, clients[c], "transactions", r.body.id).cl)
    IN  /\ r.route = "DELETE /api/transactions/:id" /\ r.pc = "delete"
        /\ ~LockedByOther(c, "transactions", r.body.id)
        /\ db' = done.db
        /\ clients' = [clients EXCEPT ![c] = Release(done.cl)]
        /\ idle' = Append(IdleWithout(c), c)
        /\ reqs' = [reqs EXCEPT ![i] = Respond(r, 204)]
        /\ UNCHANGED <<relations, issued, tzServer, opening>> /\ UNCHANGED app

\* lines 551-557: a query of the handler rejects (the store fails): ROLLBACK, 500, release
DeleteTransaction_Catch(i) ==
    LET r == reqs[i]
        c == r.client
    IN  /\ r.route = "DELETE /api/transactions/:id"
        /\ r.pc \in {"reverse", "payment", "delete"}
        /\ clients' = [clients EXCEPT ![c] = Release(Rollback(clients[c]))]
        /\ idle' = Append(IdleWithout(c), c)
        /\ reqs' = [reqs EXCEPT ![i] = [Respond(r, 500) EXCEPT !.fail = r.pc]]
        /\ UNCHANGED <<db, relations, issued, tzServer, opening>> /\ UNCHANGED app

\* ------------------------------------------------------------ pool.query
\* pool.query(text) takes a client as pool.connect() does, runs the one statement on it
\* and releases it.  The statement waits while another transaction holds the row.
IsQueryRoute(route) ==
    route \in {"PUT /api/debts/:id", "POST /api/recurring-payments",
               "DELETE /api/recurring-payments/:id", "DELETE /api/accounts/:id",
               "POST /api/accounts"}
Query_Send(i) ==
    LET r == reqs[i]
        c == NextClient
    IN  /\ r.pc = "query" \/ (r.pc = "start" /\ IsQueryRoute(r.route))
        /\ c # 0
        /\ clients' = [clients EXCEPT ![c].st = "busy"]
        /\ idle' = IdleWithout(c)
        /\ reqs' = [reqs EXCEPT ![i].pc = "run", ![i].client = c]
        /\ UNCHANGED <<db, relations, issued, tzServer, opening>> /\ UNCHANGED app
\* the statement of request i on its client is over: the new rows, the released client
\* and the answer
Query_Done(i, res, status, row) ==
    /\ db' = res.db
    /\ clients' = [clients EXCEPT ![reqs[i].client] = Release(res.cl)]
    /\ idle' = Append(IdleWithout(reqs[i].client), reqs[i].client)
    /\ reqs' = [reqs EXCEPT ![i] = [Respond(reqs[i], status) EXCEPT !.resp = row]]
    /\ UNCHANGED <<relations, issued, tzServer, opening>> /\ UNCHANGED app
Rejected(cl) == [db |-> db, cl |-> Failed(cl)]
\* a SELECT through pool.query: the client is taken and released within the step
CanSelect(t) == NextClient # 0 /\ ~clients[NextClient].aborted /\ t \in relations
Selected(t) == ViewT(db, clients[NextClient], t)
SelectRejects(i, t) ==
    /\ NextClient # 0
    /\ clients[NextClient].aborted \/ t \notin relations
    /\ reqs' = [reqs EXCEPT ![i] = Respond(reqs[i], 500)]
    /\ clients' = [clients EXCEPT ![NextClient] = Failed(@)]
    /\ UNCHANGED <<db, relations, idle, issued, tzServer, opening>> /\ UNCHANGED app

\* ------------------------------------------ PUT /api/accounts/:id (index.js 392-416)
\* lines 394-395
PutAccountBody(body) ==
    [id |-> body.id, name |-> Field(body, "name"), type |-> Field(body, "type"),
     balance |-> FieldN(body, "balance"), order |-> FieldN(body, "order")]
\* lines 398-406: with no order in the body the stored order is read; 404 with no row
PutAccount_Order(i) ==
    LET r == reqs[i]
    IN  /\ r.route = "PUT /api/accounts/:id" /\ r.pc = "start"
        /\ IF FieldN(r.body, "order") # NoInt
           THEN /\ reqs' = [reqs EXCEPT ![i].pc = "query"]
                /\ UNCHANGED <<db, relations, clients, idle, issued, tzServer, opening>> /\ UNCHANGED app
           ELSE \/ SelectRejects(i, "accounts")
                \/ /\ CanSelect("accounts")
                   /\ reqs' = [reqs EXCEPT ![i] =
                         IF r.body.id \in DOMAIN Selected("accounts")
                         THEN [r EXCEPT !.pc = "query",
                                        !.body = Put(@, "order",
                                                     Selected("accounts")[r.body.id].order)]
                         ELSE Respond(r, 404)]
                   /\ UNCHANGED <<db, relations, clients, idle, issued, tzServer, opening>> /\ UNCHANGED app
\* lines 409-413: UPDATE accounts SET name, type, balance, ..., "order" WHERE id
PutAccount_Update(i) ==
    LET r == reqs[i]
        b == PutAccountBody(r.body)
        c == r.client
        cl == clients[c]
        accts == ViewT(db, cl, "accounts")
    IN  /\ r.route = "PUT /api/accounts/:id" /\ r.pc = "run"
        /\ b.id \in DOMAIN accts => ~LockedByOther(c, "accounts", b.id)
        /\ IF cl.aborted \/ (b.id \in DOMAIN accts
                              /\ (b.name = NULL \/ b.type = NULL \/ b.balance = NoInt))
           THEN Query_Done(i, Rejected(cl), 500, Empty)
           ELSE IF b.id \in DOMAIN accts
           THEN Query_Done(i, WriteRow(db, cl, "accounts", b.id,
                                  AccountRow(b.name, b.type, b.balance, b.order)), 200,
                          AccountRow(b.name, b.type, b.balance, b.order))
           ELSE Query_Done(i, [db |-> db, cl |-> cl], 200, Empty)

\* --------------------------------------------- PUT /api/debts/:id (index.js 451-463)
\* lines 453-454
PutDebtBody(body) ==
    [id |-> body.id, name |-> Field(body, "name"), type |-> Field(body, "type"),
     balance |-> FieldN(body, "balance"), creditLimit |-> FieldN(body, "creditLimit")]
PutDebt_Update(i) ==
    LET r == reqs[i]
        b == PutDebtBody(r.body)
        c == r.client
        cl == clients[c]
        rows == ViewT(db, cl, "debts")
    IN  /\ r.route = "PUT /api/debts/:id" /\ r.pc = "run"
        /\ b.id \in DOMAIN rows => ~LockedByOther(c, "debts", b.id)
        /\ IF cl.aborted \/ (b.id \in DOMAIN rows
                              /\ (b.name = NULL \/ b.type = NULL \/ b.balance = NoInt))
           THEN Query_Done(i, Rejected(cl), 500, Empty)
           ELSE IF b.id \in DOMAIN rows
           THEN Query_Done(i, WriteRow(db, cl, "debts", b.id,
                                  DebtRow(b.name, b.type, b.balance, b.creditLimit)), 200,
                          DebtRow(b.name, b.type, b.balance, b.creditLimit))
           ELSE Query_Done(i, [db |-> db, cl |-> cl], 200, Empty)

\* ---------------------------------- POST /api/recurring-payments (index.js 570-581)
\* line 572
PostRecurringPaymentBody(body) ==
    [id |-> Field(body, "id"), name |-> Field(body, "name"), amount |-> FieldN(body, "amount"),
     frequency |-> Field(body, "frequency"), type |-> Field(body, "type"),
     nextPaymentDate |-> FieldN(body, "nextPaymentDate"),
     accountId |-> Field(body, "accountId")]
InsertRecurringPaymentOk(cl, b) ==
    /\ ~cl.aborted
    /\ "recurring_payments" \in relations
    /\ b.id # NULL /\ b.name # NULL /\ b.amount # NoInt /\ b.frequency # NULL
    /\ b.type # NULL /\ b.nextPaymentDate # NoInt
    /\ b.id \notin DOMAIN ViewT(db, cl, "recurring_payments")
    /\ b.accountId # NULL => b.accountId \in DOMAIN ViewT(db, cl, "accounts")
PostRecurringPayment_Insert(i) ==
    LET r == reqs[i]
        b == PostRecurringPaymentBody(r.body)
        cl == clients[r.client]
    IN  /\ r.route = "POST /api/recurring-payments" /\ r.pc = "run"
        /\ b.id = NULL \/ ~LockedByOther(r.client, "recurring_payments", b.id)
        /\ IF InsertRecurringPaymentOk(cl, b)
           THEN Query_Done(i, WriteRow(db, cl, "recurring_payments", b.id,
                                  RecurringPaymentRow(b.name, b.amount, b.frequency, b.type,
                                                      b.nextPaymentDate, b.accountId)), 200,
                          RecurringPaymentRow(b.name, b.amount, b.frequency, b.type,
                                              b.nextPaymentDate, b.accountId))
           ELSE Query_Done(i, Rejected(cl), 500, Empty)

\* ------------------------------- PUT /api/recurring-payments/:id (index.js 583-615)
\* lines 589-593: the current row; 404 with none
PutRecurringPayment_Select(i) ==
    LET r == reqs[i]
    IN  /\ r.route = "PUT /api/recurring-payments/:id" /\ r.pc = "start"
        /\ \/ SelectRejects(i, "recurring_payments")
           \/ /\ CanSelect("recurring_payments")
              /\ reqs' = [reqs EXCEPT ![i] =
                    IF r.body.id \in DOMAIN Selected("recurring_payments")
                    THEN [r EXCEPT !.pc = "query", !.tx = Selected("recurring_payments")[r.body.id]]
                    ELSE Respond(r, 404)]
              /\ UNCHANGED <<db, relations, clients, idle, issued, tzServer, opening>> /\ UNCHANGED app
\* line 596: { ...currentPayment, ...updates }: a key of the body replaces the same key
\* of the row.  The row's keys are the column names; nextPaymentDate and accountId of
\* the body are keys the row does not have and line 598 does not read.
MergedByField(currentPayment, updates) ==
    [k \in DOMAIN currentPayment |->
        IF k = "next_payment_date" /\ "nextPaymentDate" \in DOMAIN updates
        THEN updates.nextPaymentDate
        ELSE IF k \in DOMAIN updates THEN updates[k] ELSE currentPayment[k]]
Merged(currentPayment, updates) ==
    [k \in DOMAIN currentPayment |->
        IF k \in DOMAIN updates THEN updates[k] ELSE currentPayment[k]]
\* lines 598-611: UPDATE recurring_payments SET ... WHERE id
PutRecurringPayment_Update(i) ==
    LET r == reqs[i]
        c == r.client
        cl == clients[c]
        rows == ViewT(db, cl, "recurring_payments")
        newPayment == Merged(r.tx, r.body.updates)
    IN  /\ r.route = "PUT /api/recurring-payments/:id" /\ r.pc = "run"
        /\ r.body.id \in DOMAIN rows => ~LockedByOther(c, "recurring_payments", r.body.id)
        /\ IF cl.aborted \/ "recurring_payments" \notin relations
           THEN Query_Done(i, Rejected(cl), 500, Empty)
           ELSE IF r.body.id \in DOMAIN rows
           THEN Query_Done(i, WriteRow(db, cl, "recurring_payments", r.body.id, newPayment), 200,
                           newPayment)
           ELSE Query_Done(i, [db |-> db, cl |-> cl], 200, Empty)

\* ---------------------------- DELETE /api/recurring-payments/:id (index.js 617-625)
\* the transactions that name the payment keep their row: ON DELETE SET NULL (line 166)
SetNull(d, cl, p) ==
    LET txs == ViewT(d, cl, "transactions")
        hit == {t \in DOMAIN txs : txs[t].recurring_payment_id = p}
        F[S \in SUBSET hit] ==
            IF S = {} THEN [db |-> d, cl |-> cl]
            ELSE LET t == CHOOSE x \in S : TRUE
                     rest == F[S \ {t}]
                 IN  WriteRow(rest.db, rest.cl, "transactions", t,
                              [txs[t] EXCEPT !.recurring_payment_id = NULL])
    IN  F[hit]
DeleteRecurringPayment_Row(i) ==
    LET r == reqs[i]
        c == r.client
        cl == clients[c]
        rows == ViewT(db, cl, "recurring_payments")
        txs == ViewT(db, cl, "transactions")
        cleared == SetNull(db, cl, r.body.id)
    IN  /\ r.route = "DELETE /api/recurring-payments/:id" /\ r.pc = "run"
        /\ r.body.id \in DOMAIN rows =>
              /\ ~LockedByOther(c, "recurring_payments", r.body.id)
              /\ ~NamedByOther(c, r.body.id)
              /\ \A t \in DOMAIN txs : txs[t].recurring_payment_id = r.body.id
                                          => ~LockedByOther(c, "transactions", t)
        /\ IF cl.aborted \/ "recurring_payments" \notin relations
           THEN Query_Done(i, Rejected(cl), 500, Empty)
           ELSE IF r.body.id \in DOMAIN rows
           THEN Query_Done(i, DeleteRow(cleared.db, cleared.cl, "recurring_payments", r.body.id), 200,
                           Empty)
           ELSE Query_Done(i, [db |-> db, cl |-> cl], 200, Empty)

\* ------------------------------------- DELETE /api/accounts/:id (index.js 418-426)
\* What a statement that leaves the tables as view does to the database: pending in an
\* open transaction, else committed.
Rewritten(d, cl, view) ==
    IF cl.inTxn
    THEN [db |-> d,
          cl |-> [cl EXCEPT
                    !.w = [t \in Tables |->
                             [k \in {x \in DOMAIN view[t] :
                                        \/ x \in DOMAIN cl.w[t]
                                        \/ x \notin DOMAIN d[t]
                                        \/ d[t][x] # view[t][x]} |-> view[t][k]]],
                    !.d = [t \in Tables |->
                             (cl.d[t] \cup DOMAIN ViewT(d, cl, t)) \ DOMAIN view[t]]]]
    ELSE [db |-> view, cl |-> cl]
\* DELETE FROM accounts WHERE id: the account's transactions and recurring payments go
\* with it (ON DELETE CASCADE, lines 162 and 190), and a transaction left that names
\* one of those payments keeps its row (ON DELETE SET NULL, line 168)
Cascaded(d, cl, id) ==
    LET now == [t \in Tables |-> ViewT(d, cl, t)]
        txs == {t \in DOMAIN now.transactions : now.transactions[t].account_id # id}
        rps == {p \in DOMAIN now.recurring_payments : now.recurring_payments[p].account_id # id}
    IN  [now EXCEPT
            !.accounts = Del(@, id),
            !.recurring_payments = [p \in rps |-> @[p]],
            !.transactions =
                [t \in txs |->
                    IF @[t].recurring_payment_id \in (DOMAIN now.recurring_payments) \ rps
                    THEN [@[t] EXCEPT !.recurring_payment_id = NULL] ELSE @[t]]]
\* the rows the DELETE has to lock: the account's row and the rows that go or change
\* with it; a row another open transaction wrote to name the account makes it wait too
DeleteAccountWaits(c, id) ==
    LET cl == clients[c]
        after == Cascaded(db, cl, id)
    IN  \/ LockedByOther(c, "accounts", id)
        \/ \E t \in {"transactions", "recurring_payments"} :
              \E k \in DOMAIN ViewT(db, cl, t) :
                  /\ k \notin DOMAIN after[t] \/ after[t][k] # ViewT(db, cl, t)[k]
                  /\ LockedByOther(c, t, k)
        \/ \E o \in ConnIds \ {c} : \E t \in {"transactions", "recurring_payments"} :
              \E k \in DOMAIN clients[o].w[t] : clients[o].w[t][k].account_id = id
DeleteAccount_Row(i) ==
    LET r == reqs[i]
        c == r.client
        cl == clients[c]
    IN  /\ r.route = "DELETE /api/accounts/:id" /\ r.pc = "run"
        /\ r.body.id \in DOMAIN ViewT(db, cl, "accounts") => ~DeleteAccountWaits(c, r.body.id)
        /\ IF cl.aborted
           THEN Query_Done(i, Rejected(cl), 500, Empty)
           ELSE Query_Done(i, Rewritten(db, cl, Cascaded(db, cl, r.body.id)), 200, Empty)

\* ------------------------------------------------ POST /api/accounts (index.js 377-390)
\* line 380
PostAccountBody(body) ==
    [id |-> Field(body, "id"), name |-> Field(body, "name"), type |-> Field(body, "type"),
     balance |-> FieldN(body, "balance"), order |-> FieldN(body, "order")]
\* lines 381-384: INSERT INTO accounts ... RETURNING *
PostAccount_Insert(i) ==
    LET r == reqs[i]
        b == PostAccountBody(r.body)
        cl == clients[r.client]
    IN  /\ r.route = "POST /api/accounts" /\ r.pc = "run"
        /\ b.id = NULL \/ ~LockedByOther(r.client, "accounts", b.id)
        /\ IF /\ ~cl.aborted /\ "accounts" \in relations
              /\ b.id # NULL /\ b.name # NULL /\ b.type # NULL /\ b.balance # NoInt
              /\ b.id \notin DOMAIN ViewT(db, cl, "accounts")
           THEN Query_Done(i, WriteRow(db, cl, "accounts", b.id,
                                  AccountRow(b.name, b.type, b.balance, b.order)), 200,
                          AccountRow(b.name, b.type, b.balance, b.order))
           ELSE Query_Done(i, Rejected(cl), 500, Empty)

\* ----------------------------------------------------------------- browser
\* AccountProvider (AccountContext.tsx 140-145) keeps four lists; ApiService (api.ts
\* 131-435) answers from the server or, in offline mode, from mockData.
UiLists == <<"accounts", "debts", "transactions", "recurringPayments">>
EmptyUi == [l \in {UiLists[n] : n \in 1..Len(UiLists)} |-> Empty]
TableOf(l) == IF l = "recurringPayments" THEN "recurring_payments" ELSE l
TaskIds == 1..MaxTasks
GenIds == <<"g1", "g2", "g3", "g4", "g5", "g6">>
CanMake == made < Len(GenIds)
NewId == GenIds[made + 1]
Today == DateOf(2024, 3, 24)

\* a value as res.json sends it and api.ts receives it: a DATE column is a Date at the
\* server's local midnight, sent as its UTC instant
ApiRow(t, row) ==
    IF t = "recurring_payments"
    THEN [row EXCEPT !.next_payment_date = LocalMidnight(@, tzServer)]
    ELSE row
\* a date-only string "YYYY-MM-DD", as new Date() reads it: UTC midnight
DateOnly(n) == n * 24

\* AccountContext.tsx 92-139
convertApiAccount(a) ==
    [name |-> a.name, type |-> a.type, balance |-> a.balance,
     order |-> IF a.order = NoInt THEN 0 ELSE a.order]
convertApiDebt(d) ==
    [name |-> d.name, type |-> d.type, balance |-> d.balance, creditLimit |-> d.credit_limit]
convertApiTransaction(t) ==
    [accountId |-> t.account_id, amount |-> t.amount, type |-> t.type,
     recurringPaymentId |-> t.recurring_payment_id]
convertApiRecurringPayment(p) ==
    [name |-> p.name, amount |-> p.amount, frequency |-> p.frequency, type |-> p.type,
     nextPaymentDate |-> p.next_payment_date, accountId |-> p.account_id]
Convert(l, row) ==
    CASE l = "accounts" -> convertApiAccount(row)
      [] l = "debts" -> convertApiDebt(row)
      [] l = "transactions" -> convertApiTransaction(row)
      [] OTHER -> convertApiRecurringPayment(row)

\* mockData (unnamed/part_005)
mockAccounts ==
    [a \in {"mock-1", "mock-2", "mock-3"} |->
        CASE a = "mock-1" -> AccountRow("Main Checking", "current", 250000, NoInt)
          [] a = "mock-2" -> AccountRow("Savings Account", "savings", 1500000, NoInt)
          [] OTHER -> AccountRow("Trading 212 Investment", "investment", 850000, NoInt)]
mockDebts == [d \in {"debt-1"} |-> DebtRow("Credit Card", "credit_card", 120000, NoInt)]
mockTransactions ==
    [t \in {"trans-1", "trans-2"} |->
        IF t = "trans-1" THEN TransactionRow("mock-1", 8550, "expense", NULL)
        ELSE TransactionRow("mock-1", 300000, "income", NULL)]
mockRecurringPayments ==
    [p \in {"recurring-1"} |->
        RecurringPaymentRow("Netflix Subscription", 1499, "monthly", "expense",
                            DateOnly(Today + 7), "mock-1")]
Mock(l) ==
    CASE l = "accounts" -> mockAccounts
      [] l = "debts" -> mockDebts
      [] l = "transactions" -> mockTransactions
      [] OTHER -> mockRecurringPayments

\* An async function in progress is a stack of frames, the callee on top; ret is what
\* the callee that returned last handed back, req the request the top frame awaits.
\* ids are the ids the function drew, in order.
\* by is the handler call that made the function.
NoCall == [handler |-> "none", call |-> 0, payment |-> NULL, was |-> NoInt, frequency |-> NULL]
NoTask == [op |-> "none", arg |-> Empty, stack |-> <<>>, ret |-> "none", req |-> 0, ids |-> <<>>,
           by |-> NoCall]
Frame(fn, pc, arg) == [fn |-> fn, pc |-> pc, arg |-> arg]
Top(k) == tasks[k].stack[Len(tasks[k].stack)]
At(k, fn, pc) == tasks[k].stack # <<>> /\ Top(k).fn = fn /\ Top(k).pc = pc
Below(k) == SubSeq(tasks[k].stack, 1, Len(tasks[k].stack) - 1)
Goto(k, pc) == [tasks[k] EXCEPT !.stack[Len(tasks[k].stack)].pc = pc]
Call(t, frame) == [t EXCEPT !.stack = Append(@, frame)]
Return(k, ret) == [tasks[k] EXCEPT !.stack = Below(k), !.ret = ret, !.req = 0]
FreeTasks == {k \in TaskIds : tasks[k].stack = <<>>}
Running == TaskIds \ FreeTasks
\* the handler's calls, none awaited: each is an async function of its own
Spawned(calls_, by) ==
    LET free == CHOOSE seq \in [1..Len(calls_) -> FreeTasks] :
                    /\ \A m, n \in 1..Len(calls_) : m < n => seq[m] < seq[n]
                    /\ \A k \in FreeTasks : (\E n \in 1..Len(calls_) : seq[n] >= k) =>
                          (\E n \in 1..Len(calls_) : seq[n] = k)
    IN  [k \in TaskIds |->
            IF \E n \in 1..Len(calls_) : free[n] = k
            THEN LET n == CHOOSE m \in 1..Len(calls_) : free[m] = k
                 IN  [NoTask EXCEPT !.op = calls_[n].fn, !.arg = calls_[n].arg,
                                    !.stack = <<calls_[n]>>, !.by = by]
            ELSE tasks[k]]
CanSpawn(n) == Cardinality(FreeTasks) >= n /\ calls < MaxCalls
server == <<db, relations, clients, idle, tzServer, opening>>
\* fetch(): the request leaves for the server
CanFetch == issued < MaxRequests /\ Answered # {}
Fetch(k, route, body) ==
    /\ reqs' = Issued(route, body, db, k)
    /\ issued' = issued + 1
Taken(i) == [reqs EXCEPT ![i].owner = 0]

\* ------------------------------------------- refreshData (AccountContext.tsx 150-175)
\* line 156: checkConnection (api.ts 135-143) probes /api/health (api.ts 52-62)
RefreshData_CheckConnection(k) ==
    /\ At(k, "refreshData", "check")
    /\ offline' = ~backendUp
    /\ tasks' = [tasks EXCEPT ![k] = Goto(k, "get")]
    /\ UNCHANGED <<server, reqs, issued, backendUp, ui, made, tzClient, trial, calls>>
\* lines 158-168: the four lists, from mockData when offline, else each from its GET
\* route (index.js 369, 429, 477, 561): one SELECT through pool.query.  A route that
\* answers 500 makes its get throw: line 169 catches and the lists stay as they are.
RefreshData_Get(k) ==
    LET got == Top(k).arg
        l == UiLists[Cardinality(DOMAIN got) + 1]
        t == TableOf(l)
        rows == IF offline THEN Mock(l)
                ELSE [id \in DOMAIN Selected(t) |-> ApiRow(t, Selected(t)[id])]
        all == Put(got, l, rows)
    IN  /\ At(k, "refreshData", "get")
        /\ offline \/ NextClient # 0
        /\ IF ~offline /\ ~CanSelect(t)
           THEN /\ clients' = [clients EXCEPT ![NextClient] = Failed(@)]
                /\ tasks' = [tasks EXCEPT ![k] = Return(k, "ok")]
                /\ ui' = ui
           ELSE /\ clients' = clients
                /\ IF Cardinality(DOMAIN all) = Len(UiLists)
                   THEN /\ ui' = [x \in DOMAIN all |->
                                    [id \in DOMAIN all[x] |-> Convert(x, all[x][id])]]
                        /\ tasks' = [tasks EXCEPT ![k] = Return(k, "ok")]
                   ELSE /\ ui' = ui
                        /\ tasks' = [tasks EXCEPT ![k].stack[Len(tasks[k].stack)].arg = all]
        /\ UNCHANGED <<db, relations, idle, tzServer, opening, reqs, issued, backendUp,
                       offline, made, tzClient, trial, calls>>

\* ---------------------------------------- addTransaction (AccountContext.tsx 337-361)
\* api.ts 338-349: the body of the POST
createTransactionBody(transaction) ==
    [id |-> transaction.id, accountId |-> transaction.account_id,
     amount |-> transaction.amount, type |-> transaction.type]
\* the refreshData of line 354, called from frame pc of task t
CallRefreshData(t) == Call(t, Frame("refreshData", "check", Empty))
\* lines 339-349: a fresh id, apiService.createTransaction (api.ts 332-353); offline the
\* call hands the transaction back and lines 351-354 run
AddTransaction_Create(k) ==
    LET d == Top(k).arg
        apiTx == [id |-> NewId, account_id |-> d.accountId, amount |-> d.amount,
                  type |-> d.type, recurring_payment_id |-> d.recurringPaymentId]
    IN  /\ At(k, "addTransaction", "create")
        /\ CanMake
        /\ made' = made + 1
        /\ IF offline
           THEN /\ ui' = [ui EXCEPT !.transactions = Put(@, NewId, convertApiTransaction(apiTx))]
                /\ tasks' = [tasks EXCEPT ![k] =
                               CallRefreshData([Goto(k, "refreshed") EXCEPT !.ids = Append(@, NewId)])]
                /\ UNCHANGED <<reqs, issued>>
           ELSE /\ CanFetch
                /\ Fetch(k, "POST /api/transactions", createTransactionBody(apiTx))
                /\ tasks' = [tasks EXCEPT ![k] =
                               [Goto(k, "await") EXCEPT !.req = NextReq, !.ids = Append(@, NewId)]]
                /\ ui' = ui
        /\ UNCHANGED <<server, backendUp, offline, tzClient, trial, calls>>
\* api.ts 351-352 and lines 351-354, or the catch of 356-359
AddTransaction_Created(k) ==
    LET i == tasks[k].req
        r == reqs[i]
    IN  /\ At(k, "addTransaction", "await")
        /\ r.pc = "done"
        /\ reqs' = Taken(i)
        /\ IF r.status \in 200..299
           THEN /\ ui' = [ui EXCEPT !.transactions =
                            Put(@, r.body.id, convertApiTransaction(r.resp))]
                /\ tasks' = [tasks EXCEPT ![k] =
                               CallRefreshData([Goto(k, "refreshed") EXCEPT !.req = 0])]
           ELSE /\ ui' = ui
                /\ tasks' = [tasks EXCEPT ![k] = Return(k, "throw")]
        /\ UNCHANGED <<server, issued, backendUp, offline, made, tzClient, trial, calls>>
\* refreshData is over: addTransaction returns
AddTransaction_Refreshed(k) ==
    /\ At(k, "addTransaction", "refreshed")
    /\ tasks' = [tasks EXCEPT ![k] = Return(k, "ok")]
    /\ UNCHANGED <<server, reqs, issued, backendUp, offline, ui, made, tzClient, trial, calls>>

\* ----------------------------------------- transferFunds (AccountContext.tsx 451-476)
Leg(accountId, amount, type) ==
    Frame("addTransaction", "create",
          [accountId |-> accountId, amount |-> amount, type |-> type,
           recurringPaymentId |-> NULL])
\* lines 454-461: the expense on the source account
TransferFunds_Debit(k) ==
    /\ At(k, "transferFunds", "debit")
    /\ tasks' = [tasks EXCEPT ![k] =
                   Call(Goto(k, "credit"), Leg(Top(k).arg.from, Top(k).arg.amount, "expense"))]
    /\ UNCHANGED <<server, reqs, issued, backendUp, offline, ui, made, tzClient, trial, calls>>
\* lines 463-471: the income on the destination account, unless the expense threw
TransferFunds_Credit(k) ==
    /\ At(k, "transferFunds", "credit")
    /\ tasks' = [tasks EXCEPT ![k] =
                   IF tasks[k].ret = "throw" THEN Return(k, "throw")
                   ELSE Call(Goto(k, "end"), Leg(Top(k).arg.to, Top(k).arg.amount, "income"))]
    /\ UNCHANGED <<server, reqs, issued, backendUp, offline, ui, made, tzClient, trial, calls>>
TransferFunds_End(k) ==
    /\ At(k, "transferFunds", "end")
    /\ tasks' = [tasks EXCEPT ![k] = Return(k, tasks[k].ret)]
    /\ UNCHANGED <<server, reqs, issued, backendUp, offline, ui, made, tzClient, trial, calls>>

\* TransferDialog.handleSubmit (TransferDialog.tsx 26-72): the accounts are picked from
\* the list shown; the same account twice and an amount above the balance shown are
\* turned down; transferFunds is called and not awaited.
TransferRoutes == {<<"a1", "a2">>, <<"a2", "a1">>, <<"a1", "a1">>, <<"mock-1", "mock-2">>}
\* toast({ title: "Error", ... }); return: the handler ends, its message in a free place
Toasted(description, arg, by) ==
    LET k == CHOOSE f \in FreeTasks : \A g \in FreeTasks : f <= g
    IN  [tasks EXCEPT ![k] = [NoTask EXCEPT !.op = "toast", !.ret = description,
                                            !.arg = arg, !.by = by]]
\* TransferDialog.tsx 38 and 50
SameAccount(from, to) == from = to
InsufficientBalanceSkipped(fromAccount, amount) == FALSE
InsufficientBalance(fromAccount, amount) == fromAccount.balance < amount
TransferDialog_handleSubmit ==
    \E from \in DOMAIN ui.accounts, to \in DOMAIN ui.accounts, amount \in Amounts :
        LET arg == [from |-> from, to |-> to, amount |-> amount,
                    balance |-> ui.accounts[from].balance]
            by == [NoCall EXCEPT !.handler = "TransferDialog.handleSubmit", !.call = calls + 1]
        IN  /\ <<from, to>> \in TransferRoutes
            /\ CanSpawn(1)
            /\ tasks' = IF SameAccount(from, to)
                        THEN Toasted("Cannot transfer to the same account", arg, by)
                        ELSE IF InsufficientBalance(ui.accounts[from], amount)
                        THEN Toasted("Insufficient balance", arg, by)
                        ELSE Spawned(<<Frame("transferFunds", "debit", arg)>>, by)
            /\ calls' = calls + 1
            /\ UNCHANGED <<server, reqs, issued, backendUp, offline, ui, made, tzClient, trial>>

\* ----------------------------------------- deleteAccount (AccountContext.tsx 252-261)
\* lines 255-256: the account leaves the list, and so do its transactions
WithoutAccount(id) ==
    [ui EXCEPT !.accounts = Del(@, id),
               !.transactions =
                   [t \in {x \in DOMAIN @ : @[x].accountId # id} |-> @[t]]]
\* api.ts 230-240: offline nothing is sent
DeleteAccount_Delete(k) ==
    /\ At(k, "deleteAccount", "delete")
    /\ IF offline
       THEN /\ ui' = WithoutAccount(Top(k).arg.id)
            /\ tasks' = [tasks EXCEPT ![k] = Return(k, "ok")]
            /\ UNCHANGED <<reqs, issued>>
       ELSE /\ CanFetch
            /\ Fetch(k, "DELETE /api/accounts/:id", [id |-> Top(k).arg.id])
            /\ tasks' = [tasks EXCEPT ![k] = [Goto(k, "await") EXCEPT !.req = NextReq]]
            /\ ui' = ui
    /\ UNCHANGED <<server, backendUp, offline, made, tzClient, trial, calls>>
\* api.ts 239: a status that is not ok throws
DeleteAccount_Answered(k) ==
    LET i == tasks[k].req
        r == reqs[i]
    IN  /\ At(k, "deleteAccount", "await")
        /\ r.pc = "done"
        /\ reqs' = Taken(i)
        /\ IF r.status \in 200..299
           THEN /\ ui' = WithoutAccount(r.body.id)
                /\ tasks' = [tasks EXCEPT ![k] = Return(k, "ok")]
           ELSE /\ ui' = ui
                /\ tasks' = [tasks EXCEPT ![k] = Return(k, "throw")]
        /\ UNCHANGED <<server, issued, backendUp, offline, made, tzClient, trial, calls>>
\* a user of the context calls deleteAccount on an account of the list
DeleteAccount_Called ==
    \E id \in DOMAIN ui.accounts :
        /\ CanSpawn(1)
        /\ tasks' = Spawned(<<Frame("deleteAccount", "delete", [id |-> id])>>,
                            [NoCall EXCEPT !.handler = "deleteAccount", !.call = calls + 1])
        /\ calls' = calls + 1
        /\ UNCHANGED <<server, reqs, issued, backendUp, offline, ui, made, tzClient, trial>>

\* -------------------------------------------- addAccount (AccountContext.tsx 205-227)
\* lines 207-208: the id, and the order: the length of the list of the render
\* lines 209-221, api.ts 166-196: offline the account is handed back
AddAccount_Post(k) ==
    LET a == Top(k).arg
        apiAccount == [id |-> NewId, name |-> a.name, type |-> a.type, balance |-> a.balance,
                       order |-> Cardinality(DOMAIN a.accounts)]
    IN  /\ At(k, "addAccount", "post")
        /\ CanMake
        /\ made' = made + 1
        /\ IF offline
           THEN /\ ui' = [ui EXCEPT !.accounts = Put(@, NewId, convertApiAccount(apiAccount))]
                /\ tasks' = [tasks EXCEPT ![k] = [Return(k, "ok") EXCEPT !.ids = Append(@, NewId)]]
                /\ UNCHANGED <<reqs, issued>>
           ELSE /\ CanFetch
                /\ Fetch(k, "POST /api/accounts", apiAccount)
                /\ tasks' = [tasks EXCEPT ![k] =
                               [Goto(k, "await") EXCEPT !.req = NextReq, !.ids = Append(@, NewId)]]
                /\ ui' = ui
        /\ UNCHANGED <<server, backendUp, offline, tzClient, trial, calls>>
\* line 222: setAccounts(prev => [...prev, convertApiAccount(apiAccount)])
AddAccount_Answered(k) ==
    LET i == tasks[k].req
        r == reqs[i]
    IN  /\ At(k, "addAccount", "await")
        /\ r.pc = "done"
        /\ reqs' = Taken(i)
        /\ IF r.status \in 200..299
           THEN /\ ui' = [ui EXCEPT !.accounts =
                            Put(@, r.body.id, convertApiAccount(ApiRow("accounts", r.resp)))]
                /\ tasks' = [tasks EXCEPT ![k] = Return(k, "ok")]
           ELSE /\ ui' = ui
                /\ tasks' = [tasks EXCEPT ![k] = Return(k, "throw")]
        /\ UNCHANGED <<server, issued, backendUp, offline, made, tzClient, trial, calls>>
\* AddAccountDialog.handleSubmit (AddAccountDialog.tsx 40-75): a name, a type, a balance
AddAccountDialog_handleSubmit ==
    /\ CanSpawn(1)
    /\ tasks' = Spawned(<<Frame("addAccount", "post",
                                [name |-> "Holiday", type |-> "savings", balance |-> 300,
                                 accounts |-> ui.accounts])>>,
                        [NoCall EXCEPT !.handler = "AddAccountDialog.handleSubmit",
                                       !.call = calls + 1])
    /\ calls' = calls + 1
    /\ UNCHANGED <<server, reqs, issued, backendUp, offline, ui, made, tzClient, trial>>

\* -------------------------------------------- updateDebt (AccountContext.tsx 283-300)
\* api.ts 292-303: JSON.stringify leaves out the keys whose value is undefined
updateDebtBody(id, debtData) == [k \in DOMAIN debtData \cup {"id"} |-> IF k = "id" THEN id ELSE debtData[k]]
\* api.ts 282-289: offline the debt handed back has the id and the fields given
OfflineDebt(debtData) ==
    [name |-> Field(debtData, "name"), type |-> Field(debtData, "type"),
     balance |-> FieldN(debtData, "balance"), credit_limit |-> FieldN(debtData, "creditLimit")]
\* line 294: setDebts(prev => prev.map(...))
SetDebt(id, apiDebt) ==
    [ui EXCEPT !.debts = [d \in DOMAIN @ |-> IF d = id THEN convertApiDebt(apiDebt) ELSE @[d]]]
UpdateDebt_Put(k) ==
    LET a == Top(k).arg
    IN  /\ At(k, "updateDebt", "put")
        /\ IF offline
           THEN /\ ui' = SetDebt(a.id, OfflineDebt(a.debtData))
                /\ tasks' = [tasks EXCEPT ![k] = Return(k, "ok")]
                /\ UNCHANGED <<reqs, issued>>
           ELSE /\ CanFetch
                /\ Fetch(k, "PUT /api/debts/:id", updateDebtBody(a.id, a.debtData))
                /\ tasks' = [tasks EXCEPT ![k] = [Goto(k, "await") EXCEPT !.req = NextReq]]
                /\ ui' = ui
        /\ UNCHANGED <<server, backendUp, offline, made, tzClient, trial, calls>>
\* api.ts 304-305: a status that is not ok throws, and so does response.json() on the
\* empty body res.json(undefined) sends when the UPDATE matched no row
UpdateDebt_Answered(k) ==
    LET i == tasks[k].req
        r == reqs[i]
    IN  /\ At(k, "updateDebt", "await")
        /\ r.pc = "done"
        /\ reqs' = Taken(i)
        /\ IF r.status \in 200..299 /\ r.resp # Empty
           THEN /\ ui' = SetDebt(r.body.id, r.resp)
                /\ tasks' = [tasks EXCEPT ![k] = Return(k, "ok")]
           ELSE /\ ui' = ui
                /\ tasks' = [tasks EXCEPT ![k] = Return(k, "throw")]
        /\ UNCHANGED <<server, issued, backendUp, offline, made, tzClient, trial, calls>>

\* ----------------------------------------------- payDebt (AccountContext.tsx 312-334)
\* lines 315-322: the expense on the paying account
PayDebt_Pay(k) ==
    /\ At(k, "payDebt", "pay")
    /\ tasks' = [tasks EXCEPT ![k] =
                   Call(Goto(k, "update"), Leg(Top(k).arg.accountId, Top(k).arg.amount, "expense"))]
    /\ UNCHANGED <<server, reqs, issued, backendUp, offline, ui, made, tzClient, trial, calls>>
MaxFirst(a, b) == a
Max(a, b) == IF a >= b THEN a ELSE b
\* lines 325-329: the debt as the list held it when payDebt was made, less the amount,
\* not below zero; updateDebt is given the balance alone
PayDebt_Update(k) ==
    LET a == Top(k).arg
    IN  /\ At(k, "payDebt", "update")
        /\ tasks' = [tasks EXCEPT ![k] =
               IF tasks[k].ret = "throw" THEN Return(k, "throw")
               ELSE IF a.debtId \in DOMAIN a.debts
               THEN Call(Goto(k, "end"),
                         Frame("updateDebt", "put",
                               [id |-> a.debtId,
                                debtData |-> [balance |-> Max(0, a.debts[a.debtId].balance - a.amount)]]))
               ELSE Return(k, "ok")]
        /\ UNCHANGED <<server, reqs, issued, backendUp, offline, ui, made, tzClient, trial, calls>>
PayDebt_End(k) ==
    /\ At(k, "payDebt", "end")
    /\ tasks' = [tasks EXCEPT ![k] = Return(k, tasks[k].ret)]
    /\ UNCHANGED <<server, reqs, issued, backendUp, offline, ui, made, tzClient, trial, calls>>

\* PayDebtDialog.handleSubmit (PayDebtDialog.tsx 28-98): an account of the list, an
\* amount above zero, not above the account's balance nor the debt's
PayDebtChoices == {<<"d1", "a1">>, <<"d1", "a2">>, <<"debt-1", "mock-1">>}
PayAmounts == Amounts \cup {900, 120000}
\* PayDebtDialog.tsx 61 and 70
InsufficientFundsSkipped(selectedAccount, amount) == FALSE
InsufficientFunds(selectedAccount, amount) == amount > selectedAccount.balance
ExceedsDebt(selectedDebt, amount) == amount > selectedDebt.balance
PayDebtDialog_handleSubmit ==
    \E debtId \in DOMAIN ui.debts, accountId \in DOMAIN ui.accounts, amount \in PayAmounts :
        LET arg == [debtId |-> debtId, accountId |-> accountId, amount |-> amount,
                    debts |-> ui.debts, balance |-> ui.accounts[accountId].balance]
            by == [NoCall EXCEPT !.handler = "PayDebtDialog.handleSubmit", !.call = calls + 1]
        IN  /\ <<debtId, accountId>> \in PayDebtChoices
            /\ CanSpawn(1)
            /\ tasks' = IF amount <= 0
                        THEN Toasted("Amount must be greater than 0", arg, by)
                        ELSE IF InsufficientFunds(ui.accounts[accountId], amount)
                        THEN Toasted("Insufficient funds in selected account", arg, by)
                        ELSE IF ExceedsDebt(ui.debts[debtId], amount)
                        THEN Toasted("Payment amount cannot exceed debt balance", arg, by)
                        ELSE Spawned(<<Frame("payDebt", "pay", arg)>>, by)
            /\ calls' = calls + 1
            /\ UNCHANGED <<server, reqs, issued, backendUp, offline, ui, made, tzClient, trial>>

\* ------------------- AddTransactionDialog.handleSubmit (src/unnamed/part_001 44-81)
\* what the amount field holds: nothing, or a number, with a minus sign or without
AmountsTyped == {"", "0", "3.00", "-3.00"}
\* line 56: parseFloat(formData.amount.replace(/[^0-9.]/g, '')): the minus sign is
\* among the characters removed; the amount in hundredths
sanitizedAmount(amount) == IF amount = "0" THEN 0 ELSE 300
\* lines 47-54: a field left empty is the one thing turned down; line 66 calls
\* addTransaction and does not await it
AddTransactionDialog_handleSubmit ==
    \E accountId \in DOMAIN ui.accounts, amount \in AmountsTyped, type \in {"income", "expense"} :
        LET transactionData == [accountId |-> accountId, amount |-> sanitizedAmount(amount),
                                type |-> type, recurringPaymentId |-> NULL]
            by == [NoCall EXCEPT !.handler = "AddTransactionDialog.handleSubmit", !.call = calls + 1]
        IN  /\ CanSpawn(1)
            /\ tasks' = IF amount = ""
                        THEN Toasted("Please fill in all required fields",
                                     [accountId |-> accountId, amount |-> NoInt], by)
                        ELSE Spawned(<<Frame("addTransaction", "create", transactionData)>>, by)
            /\ calls' = calls + 1
            /\ UNCHANGED <<server, reqs, issued, backendUp, offline, ui, made, tzClient, trial>>

\* -------------------------------- updateRecurringPayment (AccountContext.tsx 421-439)
\* lines 423-431 and api.ts 402-412: of the fields given only nextPaymentDate is
\* defined; it goes out as the date part of toISOString()
updateRecurringPaymentBody(id, paymentData) ==
    [id |-> id,
     updates |-> [k \in DOMAIN paymentData |->
                     IF k = "nextPaymentDate" THEN IsoDate(paymentData.nextPaymentDate)
                     ELSE paymentData[k]]]
\* api.ts 392-398: offline the payment handed back has the id and the fields given
OfflinePayment(paymentData) ==
    [name |-> Field(paymentData, "name"), amount |-> FieldN(paymentData, "amount"),
     frequency |-> Field(paymentData, "frequency"), type |-> Field(paymentData, "type"),
     next_payment_date |-> DateOnly(IsoDate(paymentData.nextPaymentDate)),
     account_id |-> Field(paymentData, "accountId")]
\* line 432: setRecurringPayments(prev => prev.map(...))
SetPayment(id, apiPayment) ==
    [ui EXCEPT !.recurringPayments =
        [p \in DOMAIN @ |-> IF p = id THEN convertApiRecurringPayment(apiPayment) ELSE @[p]]]
UpdateRecurringPayment_Put(k) ==
    LET a == Top(k).arg
    IN  /\ At(k, "updateRecurringPayment", "put")
        /\ IF offline
           THEN /\ ui' = SetPayment(a.id, OfflinePayment(a.paymentData))
                /\ tasks' = [tasks EXCEPT ![k] = Return(k, "ok")]
                /\ UNCHANGED <<reqs, issued>>
           ELSE /\ CanFetch
                /\ Fetch(k, "PUT /api/recurring-payments/:id",
                         updateRecurringPaymentBody(a.id, a.paymentData))
                /\ tasks' = [tasks EXCEPT ![k] = [Goto(k, "await") EXCEPT !.req = NextReq]]
                /\ ui' = ui
        /\ UNCHANGED <<server, backendUp, offline, made, tzClient, trial, calls>>
UpdateRecurringPayment_Answered(k) ==
    LET i == tasks[k].req
        r == reqs[i]
    IN  /\ At(k, "updateRecurringPayment", "await")
        /\ r.pc = "done"
        /\ reqs' = Taken(i)
        /\ IF r.status \in 200..299 /\ r.resp # Empty
           THEN /\ ui' = SetPayment(r.body.id, ApiRow("recurring_payments", r.resp))
                /\ tasks' = [tasks EXCEPT ![k] = Return(k, "ok")]
           ELSE /\ ui' = ui
                /\ tasks' = [tasks EXCEPT ![k] = Return(k, "throw")]
        /\ UNCHANGED <<server, issued, backendUp, offline, made, tzClient, trial, calls>>

\* -------------------------------- deleteRecurringPayment (AccountContext.tsx 441-449)
DeleteRecurringPayment_Delete(k) ==
    LET a == Top(k).arg
    IN  /\ At(k, "deleteRecurringPayment", "delete")
        /\ IF offline
           THEN /\ ui' = [ui EXCEPT !.recurringPayments = Del(@, a.id)]
                /\ tasks' = [tasks EXCEPT ![k] = Return(k, "ok")]
                /\ UNCHANGED <<reqs, issued>>
           ELSE /\ CanFetch
                /\ Fetch(k, "DELETE /api/recurring-payments/:id", [id |-> a.id])
                /\ tasks' = [tasks EXCEPT ![k] = [Goto(k, "await") EXCEPT !.req = NextReq]]
                /\ ui' = ui
        /\ UNCHANGED <<server, backendUp, offline, made, tzClient, trial, calls>>
DeleteRecurringPayment_Answered(k) ==
    LET i == tasks[k].req
        r == reqs[i]
    IN  /\ At(k, "deleteRecurringPayment", "await")
        /\ r.pc = "done"
        /\ reqs' = Taken(i)
        /\ IF r.status \in 200..299
           THEN /\ ui' = [ui EXCEPT !.recurringPayments = Del(@, r.body.id)]
                /\ tasks' = [tasks EXCEPT ![k] = Return(k, "ok")]
           ELSE /\ ui' = ui
                /\ tasks' = [tasks EXCEPT ![k] = Return(k, "throw")]
        /\ UNCHANGED <<server, issued, backendUp, offline, made, tzClient, trial, calls>>

\* ----------------------------------- addRecurringPayment (AccountContext.tsx 377-419)
\* api.ts 369-383: the body of the POST
createRecurringPaymentBody(payment) ==
    [id |-> payment.id, name |-> payment.name, amount |-> payment.amount,
     frequency |-> payment.frequency, type |-> payment.type,
     nextPaymentDate |-> payment.next_payment_date, accountId |-> payment.account_id]
\* lines 379-390; offline the payment is handed back, its date a date-only string.  The
\* accounts of the model hold no Trading 212 key: lines 393-414 do nothing.
AddRecurringPayment_Post(k) ==
    LET d == Top(k).arg
        apiPayment == [id |-> NewId, name |-> d.name, amount |-> d.amount,
                       frequency |-> d.frequency, type |-> d.type,
                       next_payment_date |-> IsoDate(d.nextPaymentDate),
                       account_id |-> d.accountId]
    IN  /\ At(k, "addRecurringPayment", "post")
        /\ CanMake
        /\ made' = made + 1
        /\ IF offline
           THEN /\ ui' = [ui EXCEPT !.recurringPayments =
                            Put(@, NewId, convertApiRecurringPayment(
                                [apiPayment EXCEPT !.next_payment_date = DateOnly(@)]))]
                /\ tasks' = [tasks EXCEPT ![k] = [Return(k, "ok") EXCEPT !.ids = Append(@, NewId)]]
                /\ UNCHANGED <<reqs, issued>>
           ELSE /\ CanFetch
                /\ Fetch(k, "POST /api/recurring-payments", createRecurringPaymentBody(apiPayment))
                /\ tasks' = [tasks EXCEPT ![k] =
                               [Goto(k, "await") EXCEPT !.req = NextReq, !.ids = Append(@, NewId)]]
                /\ ui' = ui
        /\ UNCHANGED <<server, backendUp, offline, tzClient, trial, calls>>
AddRecurringPayment_Answered(k) ==
    LET i == tasks[k].req
        r == reqs[i]
    IN  /\ At(k, "addRecurringPayment", "await")
        /\ r.pc = "done"
        /\ reqs' = Taken(i)
        /\ IF r.status \in 200..299
           THEN /\ ui' = [ui EXCEPT !.recurringPayments =
                            Put(@, r.body.id,
                                convertApiRecurringPayment(ApiRow("recurring_payments", r.resp)))]
                /\ tasks' = [tasks EXCEPT ![k] = Return(k, "ok")]
           ELSE /\ ui' = ui
                /\ tasks' = [tasks EXCEPT ![k] = Return(k, "throw")]
        /\ UNCHANGED <<server, issued, backendUp, offline, made, tzClient, trial, calls>>

\* ------------------------------------------------ settling and skipping a payment
\* getNextPaymentDate (AccountsSection.tsx 569-583, 128-138; ErrorState.tsx 182-196):
\* Date arithmetic in the browser's zone
getNextPaymentDate(frequency, currentDate) ==
    CASE frequency = "weekly" -> SetDatePlus(currentDate, 7, tzClient)
      [] frequency = "monthly" -> SetMonthPlus(currentDate, 1, tzClient)
      [] frequency = "yearly" -> SetFullYearPlus(currentDate, 1, tzClient)
      [] OTHER -> currentDate
\* the handler's call, for the record
Handled(handler, p) ==
    [handler |-> handler, call |-> calls + 1, payment |-> p,
     was |-> IF p \in DOMAIN db.recurring_payments
             THEN db.recurring_payments[p].next_payment_date ELSE NoInt,
     frequency |-> ui.recurringPayments[p].frequency]
PaidTransaction(payment, link) ==
    Frame("addTransaction", "create",
          [accountId |-> payment.accountId, amount |-> payment.amount, type |-> payment.type,
           recurringPaymentId |-> link])
NextPayment(payment) ==
    Frame("addRecurringPayment", "post",
          [payment EXCEPT !.nextPaymentDate = getNextPaymentDate(payment.frequency, @)])
MovedOn(p, payment) ==
    Frame("updateRecurringPayment", "put",
          [id |-> p, paymentData |->
              [nextPaymentDate |-> getNextPaymentDate(payment.frequency, payment.nextPaymentDate)]])
Removed(p) == Frame("deleteRecurringPayment", "delete", [id |-> p])
Handle(frames, by) ==
    /\ CanSpawn(Len(frames))
    /\ tasks' = Spawned(frames, by)
    /\ calls' = calls + 1
    /\ UNCHANGED <<server, reqs, issued, backendUp, offline, ui, made, tzClient, trial>>
\* AccountsSection.tsx 601-616: the transaction, linked to the payment, and the
\* payment's new date; neither call is awaited
handlePaymentPaid ==
    \E p \in DOMAIN ui.recurringPayments :
        Handle(<<PaidTransaction(ui.recurringPayments[p], p), MovedOn(p, ui.recurringPayments[p])>>,
               Handled("handlePaymentPaid", p))
\* AccountsSection.tsx 618-622
handlePaymentSkipped ==
    \E p \in DOMAIN ui.recurringPayments :
        Handle(<<MovedOn(p, ui.recurringPayments[p])>>, Handled("handlePaymentSkipped", p))
\* AccountsSection.tsx 156-181 (and ErrorState.tsx 199-219): the transaction, the
\* payment deleted, a new payment made with the next date
handlePaymentPaid_Recreate ==
    \E p \in DOMAIN ui.recurringPayments :
        Handle(<<PaidTransaction(ui.recurringPayments[p], NULL), Removed(p),
                 NextPayment(ui.recurringPayments[p])>>,
               Handled("handlePaymentPaid_Recreate", p))
\* AccountsSection.tsx 183-198 (and ErrorState.tsx 220-232)
handlePaymentSkipped_Recreate ==
    \E p \in DOMAIN ui.recurringPayments :
        Handle(<<Removed(p), NextPayment(ui.recurringPayments[p])>>,
               Handled("handlePaymentSkipped_Recreate", p))

\* EditRecurringPaymentDialog.handleSubmit (src/unnamed/part_004 53-89): the fields of
\* the form, the date among them, go to updateRecurringPayment
EditedDates == {DateOf(2024, 5, 1)}
EditRecurringPaymentDialog_handleSubmit ==
    \E p \in DOMAIN ui.recurringPayments, date \in EditedDates, amount \in Amounts :
        Handle(<<Frame("updateRecurringPayment", "put",
                       [id |-> p,
                        paymentData |->
                            [name |-> ui.recurringPayments[p].name, amount |-> amount,
                             frequency |-> ui.recurringPayments[p].frequency,
                             type |-> ui.recurringPayments[p].type,
                             nextPaymentDate |-> DateOnly(date),
                             accountId |-> ui.recurringPayments[p].accountId]])>>,
               Handled("EditRecurringPaymentDialog.handleSubmit", p))

\* ------------------------------------------------------- server start
\* initializeTables (index.js 112-208) creates the tables only if they do not exist and
\* migrates "existing databases": the server starts on whatever rows the database holds.
\* On a database this version created, CREATE TABLE transactions (line 159) names
\* recurring_payments(id) before line 181 creates that table: the statement rejects,
\* line 205 catches, and neither table exists.  A database an earlier version created
\* has all four.
CreatedTables == {"accounts", "debts"}
InitDates == {DateOf(2024, 3, 31), DateOf(2024, 2, 29)}
ServerZones == {0, 1}

InitAccounts ==
    [a \in AccountIds |->
        IF a = "a1" THEN AccountRow("Main", "current", 1000, 0)
        ELSE AccountRow("Rainy day", "savings", 500, 1)]
InitTransactions ==
    [t \in {"t1", "t2"} |->
        IF t = "t1" THEN TransactionRow("a1", 300, "expense", "r1")
        ELSE TransactionRow("a2", 800, "income", NULL)]
InitDebts == [d \in DebtIds |-> DebtRow("Card", "credit_card", 800, 1000)]

\* balance less the signed sum of the account's stored income and expense transactions
SignedSum(txs, a) ==
    LET mine == {t \in DOMAIN txs : txs[t].account_id = a /\ txs[t].type \in {"income", "expense"}}
    IN  SumOver(mine, [t \in mine |-> balanceChange(txs[t].type, txs[t].amount)])

InitServer(freqs, dates, zones) ==
    /\ relations \in {Tables, CreatedTables}
    /\ \E f \in freqs, n \in dates :
          db = [t \in Tables |->
                  CASE t \notin relations -> Empty
                    [] t = "accounts" -> InitAccounts
                    [] t = "transactions" -> InitTransactions
                    [] t = "recurring_payments" ->
                         [p \in {"r1"} |-> RecurringPaymentRow("Netflix", 300, f, "expense", n, "a1")]
                    [] OTHER -> InitDebts]
    /\ clients = [c \in ConnIds |-> NewClient]
    /\ idle = <<>>
    /\ reqs = [i \in ReqIds |-> NoReq]
    /\ issued = 0
    /\ tzServer \in zones
    /\ opening = [a \in AccountIds |-> db.accounts[a].balance - SignedSum(db.transactions, a)]

\* no browser
InitNoApp ==
    /\ backendUp = TRUE /\ offline = FALSE /\ ui = EmptyUi /\ made = 0 /\ tzClient = 0
    /\ trial = NoTrial
    /\ tasks = [k \in TaskIds |-> NoTask] /\ calls = 0
\* the page loads: useEffect (AccountContext.tsx 200-202) calls refreshData
InitApp(ups, zones) ==
    /\ backendUp \in ups /\ offline = FALSE /\ ui = EmptyUi /\ made = 0
    /\ tzClient \in zones /\ trial = NoTrial /\ calls = 0
    /\ tasks = [k \in TaskIds |->
                  IF k = 1 THEN [NoTask EXCEPT !.op = "refreshData",
                                               !.stack = <<Frame("refreshData", "check", Empty)>>]
                  ELSE NoTask]

\* -------------------------------------------------- callers of the HTTP API
\* a request body as the handler of line 487 reads it
TransactionBodies ==
    [id : {"t1", "t3"}, account_id : AccountIds, amount : {300},
     type : {"income", "expense"}, recurring_payment_id : {NULL, "r1"}]

CallPostTransaction(limit) ==
    /\ CanIssue(limit)
    /\ \E b \in TransactionBodies : Issue("POST /api/transactions", b, db, 0)
    /\ UNCHANGED app
CallDeleteTransaction(limit) ==
    /\ CanIssue(limit)
    /\ \E t \in TxIds : Issue("DELETE /api/transactions/:id", [id |-> t], db, 0)
    /\ UNCHANGED app

PostTransaction == \E i \in ReqIds : PostTransaction_Insert(i) \/ PostTransaction_Update(i)
DeleteTransaction ==
    \E i \in ReqIds :
        \/ DeleteTransaction_Select(i)
        \/ DeleteTransaction_Reverse(i)
        \/ DeleteTransaction_Payment(i)
        \/ DeleteTransaction_Commit(i)
        \/ DeleteTransaction_Catch(i)

\* Calls one after another: the next request is sent when the last one was answered.
NextLedger ==
    \/ CallPostTransaction(1)
    \/ CallDeleteTransaction(1)
    \/ PostTransaction
    \/ DeleteTransaction
InitLedger == InitServer(Frequencies, InitDates, ServerZones) /\ InitNoApp
SpecLedger == InitLedger /\ [][NextLedger]_vars

\* ------------------------------------------------------------ what is read
\* A GET handler runs pool.query on the client pool.connect() would hand out and sees
\* what that client sees; with every client taken the read waits.
CanRead == NextClient # 0
StoreRead == [t \in Tables |-> ViewT(db, clients[NextClient], t)]
\* the request answered last, nothing else in flight
Latest(i) == reqs[i].pc = "done" /\ reqs[i].seq = issued /\ InFlight = {}
IsPost(i) == reqs[i].route = "POST /api/transactions"
IsDelete(i) == reqs[i].route = "DELETE /api/transactions/:id"
\* a createTransaction call the specification accepts: existing account, amount > 0,
\* an id not in use, a linked payment that exists
ValidCreate(i) ==
    LET b == reqs[i].body
        pre == reqs[i].pre
    IN  /\ IsPost(i)
        /\ b.account_id \in DOMAIN pre.accounts
        /\ b.amount > 0
        /\ b.id \notin DOMAIN pre.transactions
        /\ b.recurring_payment_id # NULL => b.recurring_payment_id \in DOMAIN pre.recurring_payments

\* C1: for every account, after any sequence of createTransaction and deleteTransaction
\* calls, the stored balance equals the opening balance plus the amounts of its stored
\* income transactions minus the amounts of its stored expense transactions.
C1_BalanceInvariant ==
    \A a \in DOMAIN db.accounts :
        db.accounts[a].balance = opening[a] + SignedSum(db.transactions, a)
\* a create call was answered and after it a delete call removed an income or expense
\* transaction of an account
C1_Witness ==
    \E i, j \in ReqIds :
        /\ IsPost(i) /\ reqs[i].pc = "done"
        /\ IsDelete(j) /\ Latest(j) /\ reqs[j].status = 204 /\ reqs[j].seq > reqs[i].seq
        /\ reqs[j].tx.type \in {"income", "expense"}
        /\ reqs[j].tx.account_id \in DOMAIN db.accounts

\* C2: createTransaction followed immediately by deleteTransaction of the created id:
\* the delete removes the created transaction, the account's balance is what it was
\* before the create, and so is the linked payment's next_payment_date.
C2_CreateThenDelete ==
    \A i, j \in ReqIds :
        (/\ ValidCreate(i) /\ IsDelete(j) /\ Latest(j)
         /\ reqs[j].seq = reqs[i].seq + 1
         /\ reqs[j].body.id = reqs[i].body.id)
        => LET b == reqs[i].body
               pre == reqs[i].pre
           IN  /\ reqs[j].status = 204
               /\ db.accounts[b.account_id].balance = pre.accounts[b.account_id].balance
               /\ b.recurring_payment_id # NULL =>
                      db.recurring_payments[b.recurring_payment_id].next_payment_date =
                          pre.recurring_payments[b.recurring_payment_id].next_payment_date

\* C3: a createTransaction call on an existing account with amount > 0 succeeds, and
\* once it is answered the new row and the balance adjusted by +amount (income) or
\* -amount (expense) are committed and seen by every later read.
C3_CreateCommitted ==
    \A i \in ReqIds :
        (ValidCreate(i) /\ Latest(i))
        => LET b == reqs[i].body
               pre == reqs[i].pre
           IN  /\ reqs[i].status = 200
               /\ b.id \in DOMAIN db.transactions
               /\ db.accounts[b.account_id].balance =
                      pre.accounts[b.account_id].balance + balanceChange(b.type, b.amount)
               /\ CanRead
               /\ b.id \in DOMAIN StoreRead.transactions
               /\ StoreRead.accounts[b.account_id].balance =
                      pre.accounts[b.account_id].balance + balanceChange(b.type, b.amount)

\* C6: deleteTransaction is one atomic unit: while its steps run nothing of them is
\* committed, and when a step fails the account balance, the recurring payment and the
\* transaction record, as committed and as read, are what they were before the call.
C6_DeleteAtomic ==
    \A i \in ReqIds :
        /\ (IsDelete(i) /\ reqs[i].seq = issued
             /\ reqs[i].pc \in {"reverse", "payment", "delete"}) => db = reqs[i].pre
        /\ (IsDelete(i) /\ Latest(i) /\ reqs[i].status = 500)
               => db = reqs[i].pre /\ CanRead /\ StoreRead = reqs[i].pre
\* a delete that had reversed the balance and moved the payment's date failed
C6_Witness ==
    \E i \in ReqIds :
        /\ IsDelete(i) /\ Latest(i) /\ reqs[i].status = 500
        /\ reqs[i].tx # Empty
        /\ reqs[i].tx.recurring_payment_id # NULL
        /\ reqs[i].fail = "delete"

\* the server process is started (index.js 805-813) while the page is open
ServerStarts ==
    /\ ~backendUp
    /\ backendUp' = TRUE
    /\ UNCHANGED <<server, reqs, issued, offline, ui, tasks, made, tzClient, trial, calls>>

\* ------------------------------------------------------------ money transfers
RefreshData == \E k \in TaskIds : RefreshData_CheckConnection(k) \/ RefreshData_Get(k)
AddTransaction ==
    \E k \in TaskIds :
        \/ AddTransaction_Create(k)
        \/ AddTransaction_Created(k)
        \/ AddTransaction_Refreshed(k)
TransferFunds ==
    \E k \in TaskIds :
        \/ TransferFunds_Debit(k)
        \/ TransferFunds_Credit(k)
        \/ TransferFunds_End(k)
NextTransfer ==
    \/ TransferDialog_handleSubmit
    \/ TransferFunds
    \/ AddTransaction
    \/ RefreshData
    \/ PostTransaction
    \/ ServerStarts
InitTransfer == InitServer({"monthly"}, {DateOf(2024, 3, 31)}, {0}) /\ InitApp(BOOLEAN, {0})
SpecTransfer == InitTransfer /\ [][NextTransfer]_vars

\* a transaction the application shows or the store holds
Exists(id) == id \in DOMAIN ui.transactions \/ id \in DOMAIN db.transactions
IsTransfer(k) == tasks[k].op = "transferFunds"

\* C4: transferFunds is all-or-nothing: in no state is the expense leg on the source
\* account there without the income leg on the destination account, or the income leg
\* without the expense leg.
C4_TransferAllOrNothing ==
    \A k \in TaskIds :
        IsTransfer(k) =>
            LET ids == tasks[k].ids
            IN  (Len(ids) >= 1 /\ Exists(ids[1])) <=> (Len(ids) >= 2 /\ Exists(ids[2]))

\* C8: two transferFunds calls in progress on one source account have not both passed
\* the sufficient-funds check against the same balance with amounts that together
\* exceed it.
C8_NoDoubleSpend ==
    \A j, k \in Running :
        (/\ j # k /\ IsTransfer(j) /\ IsTransfer(k)
         /\ tasks[j].arg.from = tasks[k].arg.from
         /\ tasks[j].arg.balance = tasks[k].arg.balance)
        => tasks[j].arg.amount + tasks[k].arg.amount <= tasks[j].arg.balance

\* -------------------------------------------------------------- debt payments
UpdateDebt == \E k \in TaskIds : UpdateDebt_Put(k) \/ UpdateDebt_Answered(k)
PayDebt == \E k \in TaskIds : PayDebt_Pay(k) \/ PayDebt_Update(k) \/ PayDebt_End(k)
PutDebt == \E i \in ReqIds : Query_Send(i) \/ PutDebt_Update(i)
NextPayDebt ==
    \/ PayDebtDialog_handleSubmit
    \/ PayDebt
    \/ UpdateDebt
    \/ AddTransaction
    \/ RefreshData
    \/ PostTransaction
    \/ PutDebt
    \/ ServerStarts
InitPayDebt == InitServer({"monthly"}, {DateOf(2024, 3, 31)}, {0}) /\ InitApp(BOOLEAN, {0})
SpecPayDebt == InitPayDebt /\ [][NextPayDebt]_vars

\* what the application shows of an account or a debt, and what the store holds
Shown(l, id) == IF id \in DOMAIN ui[l] THEN ui[l][id].balance ELSE NoInt
Stored(t, id) == IF id \in DOMAIN db[t] THEN db[t][id].balance ELSE NoInt
IsPayDebt(k) == tasks[k].op = "payDebt" /\ tasks[k].stack = <<>>
PaidFrom(k) ==
    LET a == tasks[k].arg
    IN  a.balance - a.amount \in {Shown("accounts", a.accountId), Stored("accounts", a.accountId)}
PaidOff(k) ==
    LET a == tasks[k].arg
        was == a.debts[a.debtId].balance
    IN  \/ Shown("debts", a.debtId) \notin {NoInt, was}
        \/ Stored("debts", a.debtId) \notin {NoInt, was}

\* --------------------------------------------------------------- the two forms
\* One form is submitted at a time, when the functions of the submit before have
\* returned.
Quiet == Running = {}
SubmitTransfer == Quiet /\ TransferDialog_handleSubmit
SubmitPayDebt == Quiet /\ PayDebtDialog_handleSubmit
NextForms ==
    \/ SubmitTransfer
    \/ SubmitPayDebt
    \/ TransferFunds
    \/ PayDebt
    \/ UpdateDebt
    \/ AddTransaction
    \/ RefreshData
    \/ PostTransaction
    \/ PutDebt
    \/ ServerStarts
InitForms == InitServer({"monthly"}, {DateOf(2024, 3, 31)}, {0}) /\ InitApp(BOOLEAN, {0})
SpecForms == InitForms /\ [][NextForms]_vars

\* a submit of the transfer form that validation turns down: the same account twice,
\* or an amount above the balance of the source account
TurnedDown(t) ==
    /\ t.by.handler = "TransferDialog.handleSubmit"
    /\ (t.arg.from = t.arg.to \/ t.arg.balance < t.arg.amount)

\* C16: a transfer rejected by validation changes neither account's balance and
\* creates no transaction: the step of a submit that is turned down starts no
\* transferFunds, sends no request, draws no transaction id and leaves the stored and
\* the shown accounts and transactions as they are.
C16_RejectedTransfer ==
    [][\A k \in TaskIds :
          (tasks'[k] # tasks[k] /\ TurnedDown(tasks'[k])) =>
              /\ tasks'[k].op = "toast"
              /\ \A j \in TaskIds \ {k} : tasks'[j] = tasks[j]
              /\ db' = db /\ clients' = clients /\ reqs' = reqs
              /\ ui' = ui /\ made' = made]_vars
\* a transfer of more than the source account holds was turned down
C16_Witness ==
    \E k \in TaskIds :
        /\ tasks[k].op = "toast" /\ TurnedDown(tasks[k])
        /\ tasks[k].arg.from # tasks[k].arg.to
        /\ tasks[k].arg.from \in DOMAIN db.accounts
        /\ db.accounts[tasks[k].arg.from].balance < tasks[k].arg.amount

\* a submit of the payment form with an amount above the paying account's balance or
\* above the debt's balance
Exceeding(t) ==
    /\ t.by.handler = "PayDebtDialog.handleSubmit"
    /\ \/ t.arg.amount > t.arg.balance
       \/ t.arg.amount > t.arg.debts[t.arg.debtId].balance

\* C17: payDebt is rejected, with the account balance, the debt balance and the
\* transaction list unchanged, whenever the amount exceeds the paying account's balance
\* or the debt's balance: the step of such a submit starts no payDebt, sends no
\* request, draws no transaction id and leaves what is stored and shown as it is.
C17_RejectedPayment ==
    [][\A k \in TaskIds :
          (tasks'[k] # tasks[k] /\ Exceeding(tasks'[k])) =>
              /\ tasks'[k].op = "toast"
              /\ \A j \in TaskIds \ {k} : tasks'[j] = tasks[j]
              /\ db' = db /\ clients' = clients /\ reqs' = reqs
              /\ ui' = ui /\ made' = made]_vars
\* a payment of more than the paying account holds, and within the debt, was rejected
C17_Witness ==
    \E k \in TaskIds :
        /\ tasks[k].op = "toast" /\ Exceeding(tasks[k])
        /\ tasks[k].arg.accountId \in DOMAIN db.accounts
        /\ tasks[k].arg.amount > db.accounts[tasks[k].arg.accountId].balance
        /\ tasks[k].arg.amount <= db.debts[tasks[k].arg.debtId].balance

\* a payDebt call whose updateDebt has returned
HasPaid(t) ==
    /\ t.stack # <<>>
    /\ t.stack[Len(t.stack)].fn = "payDebt" /\ t.stack[Len(t.stack)].pc = "end"
    /\ t.ret = "ok"
\* what a payment leaves of a balance: the difference, and nothing when the amount
\* covers the balance
Remaining(balance, amount) == IF amount >= balance THEN 0 ELSE balance - amount
DebtsNotNegative ==
    /\ \A d \in DOMAIN db.debts : db.debts[d].balance >= 0
    /\ \A d \in DOMAIN ui.debts : ui.debts[d].balance >= 0
UpdateRecurringPayment ==
    \E k \in TaskIds : UpdateRecurringPayment_Put(k) \/ UpdateRecurringPayment_Answered(k)
DeleteRecurringPayment ==
    \E k \in TaskIds : DeleteRecurringPayment_Delete(k) \/ DeleteRecurringPayment_Answered(k)
AddRecurringPayment ==
    \E k \in TaskIds : AddRecurringPayment_Post(k) \/ AddRecurringPayment_Answered(k)
RecurringPaymentRoutes ==
    \E i \in ReqIds :
        \/ Query_Send(i)
        \/ PostRecurringPayment_Insert(i)
        \/ PutRecurringPayment_Select(i)
        \/ PutRecurringPayment_Update(i)
        \/ DeleteRecurringPayment_Row(i)
NextSettle ==
    \/ handlePaymentPaid
    \/ handlePaymentSkipped
    \/ handlePaymentPaid_Recreate
    \/ handlePaymentSkipped_Recreate
    \/ AddTransaction
    \/ RefreshData
    \/ UpdateRecurringPayment
    \/ DeleteRecurringPayment
    \/ AddRecurringPayment
    \/ PostTransaction
    \/ RecurringPaymentRoutes
    \/ ServerStarts
SettleDates == {DateOf(2024, 3, 15)}
InitSettle == InitServer(Frequencies, SettleDates, {0}) /\ InitApp(BOOLEAN, {0})
SpecSettle == InitSettle /\ [][NextSettle]_vars

\* the functions a handler call made, and the call when all of them have returned
Made(c) == {k \in TaskIds : tasks[k].by.call = c}
Settles == {"handlePaymentPaid", "handlePaymentPaid_Recreate"}
Skips == {"handlePaymentSkipped", "handlePaymentSkipped_Recreate"}
Functions(handler) ==
    CASE handler = "handlePaymentPaid" -> 2
      [] handler = "handlePaymentPaid_Recreate" -> 3
      [] handler = "handlePaymentSkipped" -> 1
      [] OTHER -> 2
Over(c, handlers) ==
    /\ Made(c) # {}
    /\ \A k \in Made(c) :
          /\ tasks[k].by.handler \in handlers
          /\ tasks[k].by.was # NoInt
          /\ tasks[k].stack = <<>>
          /\ Cardinality(Made(c)) = Functions(tasks[k].by.handler)
By(c) == tasks[CHOOSE k \in Made(c) : TRUE].by
\* the transaction of the call is stored
TransactionCreated(c) ==
    \E k \in Made(c) :
        /\ tasks[k].op = "addTransaction"
        /\ tasks[k].ids # <<>>
        /\ tasks[k].ids[1] \in DOMAIN db.transactions
\* a payment is stored with a date later than the date the payment had
Advanced(c) ==
    \E q \in DOMAIN db.recurring_payments :
        db.recurring_payments[q].next_payment_date > By(c).was

\* C7: settling a recurring payment is atomic: once a settle is over, its transaction
\* is stored exactly if the payment's nextPaymentDate is advanced.
C7_SettleAtomic ==
    \A c \in 1..MaxCalls : Over(c, Settles) => (TransactionCreated(c) <=> Advanced(c))

\* one period after a calendar day
PeriodAfter(frequency, n) ==
    LET f == YMD(n)
    IN  CASE frequency = "weekly" -> n + 7
          [] frequency = "monthly" -> MakeDay(f.y, f.m + 1, f.d)
          [] frequency = "yearly" -> MakeDay(f.y + 1, f.m, f.d)
          [] OTHER -> n

\* C10: a settle or a skip changes the stored nextPaymentDate of the payment to one
\* period after its previous value: once the only settle or skip made so far is over,
\* the payment is stored with the date one period after the date it had.
C10_OnePeriod ==
    (calls = 1 /\ Over(1, Settles \cup Skips)) =>
        /\ By(1).payment \in DOMAIN db.recurring_payments
        /\ db.recurring_payments[By(1).payment].next_payment_date =
              PeriodAfter(By(1).frequency, By(1).was)

\* the transactions stored that are linked to payment p
LinkedTo(p) == {t \in DOMAIN db.transactions : db.transactions[t].recurring_payment_id = p}
\* the payment as the handler of call c was given it
Settled(c) == (CHOOSE k \in Made(c) : tasks[k].op = "addTransaction").arg

\* C11: settle(id) creates exactly one transaction, with the payment's amount and type
\* and with recurringPaymentId = id: once an in-place settle is over, its transaction
\* is stored with the payment's amount and type and linked to the payment, and no
\* other transaction linked to the payment was added.
C11_SettleTransaction ==
    \A c \in 1..MaxCalls :
        (calls = 1 /\ Over(c, {"handlePaymentPaid"})) =>
            /\ TransactionCreated(c)
            /\ \E k \in Made(c) :
                  /\ tasks[k].op = "addTransaction"
                  /\ LET row == db.transactions[tasks[k].ids[1]]
                     IN  /\ row.amount = Settled(c).amount
                         /\ row.type = Settled(c).type
                         /\ row.recurring_payment_id = By(c).payment
                  /\ LinkedTo(By(c).payment) \ {tasks[k].ids[1]} =
                        {t \in DOMAIN InitTransactions :
                            InitTransactions[t].recurring_payment_id = By(c).payment}

\* C14: advancement never deletes the payment: once the only settle or skip made so
\* far is over, the payment is stored under the id it had and as many payments are
\* stored as before.
C14_PaymentKept ==
    (calls = 1 /\ Over(1, Settles \cup Skips)) =>
        /\ By(1).payment \in DOMAIN db.recurring_payments
        /\ Cardinality(DOMAIN db.recurring_payments) = 1

\* a payment row but for its date
SaveDate(row) == [row EXCEPT !.next_payment_date = NoInt]
\* C15: skip(id) creates no transaction and changes no account balance; it changes
\* the nextPaymentDate of the skipped payment and no other stored value: once the only
\* skip made so far is over, the accounts, debts and transactions stored are those of
\* before, and so are the payments but for the date of the skipped one.
C15_SkipFrame ==
    (calls = 1 /\ Over(1, Skips)) =>
        /\ db.transactions = InitTransactions
        /\ db.accounts = InitAccounts
        /\ db.debts = InitDebts
        /\ DOMAIN db.recurring_payments = {By(1).payment}
        /\ \A p \in DOMAIN db.recurring_payments :
              SaveDate(db.recurring_payments[p]) =
                    SaveDate(RecurringPaymentRow("Netflix", 300, By(1).frequency, "expense",
                                                 NoInt, "a1"))

\* ------------------------------------------------------------ date arithmetic
\* The stored date of a payment, put through the code that moves it.  The server sends
\* the DATE as its local midnight (ApiRow), the browser advances that Date with
\* getNextPaymentDate and sends the date part of toISOString() (AccountContext.tsx 429,
\* 386); DELETE /api/transactions/:id moves the stored date back with previousDate.
TrialDates == DateOf(2024, 1, 1) .. DateOf(2024, 12, 31)
ClientZones == {0, 1}
advance(date, frequency) ==
    IsoDate(getNextPaymentDate(frequency, LocalMidnight(date, tzServer)))
rollback(date, frequency) == previousDate(date, frequency, tzServer)
Advances(steps) == Cardinality({n \in 1..Len(steps) : steps[n] = "advance"})
Tried(step, now) ==
    /\ trial' = [trial EXCEPT !.steps = Append(@, step), !.now = now]
    /\ UNCHANGED <<server, reqs, issued, backendUp, offline, ui, tasks, made, tzClient, calls>>
Advance ==
    /\ Len(trial.steps) < MaxSteps
    /\ Tried("advance", advance(trial.now, trial.frequency))
\* an advancement is rolled back
RollBack ==
    /\ Len(trial.steps) < MaxSteps
    /\ Len(trial.steps) < 2 * Advances(trial.steps)
    /\ Tried("rollback", rollback(trial.now, trial.frequency))
NextDates == Advance \/ RollBack
InitTrial ==
    /\ InitServer({"monthly"}, {DateOf(2024, 3, 31)}, ServerZones)
    /\ backendUp = TRUE /\ offline = FALSE /\ ui = EmptyUi /\ made = 0 /\ calls = 0
    /\ tasks = [k \in TaskIds |-> NoTask]
    /\ tzClient \in ClientZones
    /\ \E d \in TrialDates, f \in Frequencies :
          trial = [date |-> d, frequency |-> f, steps |-> <<>>, now |-> d]
SpecDates == InitTrial /\ [][NextDates]_vars

Min(a, b) == IF a <= b THEN a ELSE b
\* one calendar month later, the day of the month kept, or the month's last day
ClampedMonthAfter(n) ==
    LET f == YMD(n)
        first == MakeDay(f.y, f.m + 1, 1)
        g == YMD(first)
    IN  first + Min(f.d, DaysInMonth(g.y, g.m)) - 1

\* C12: monthly advancement keeps the day of the month and clamps it to the last day
\* of a shorter month: a date advanced once by a month is the same day of the next
\* month, or that month's last day (2024-01-31 gives 2024-02-29).
C12_MonthlyClamps ==
    (trial.steps = <<"advance">> /\ trial.frequency = "monthly" /\ tzServer = 0 /\ tzClient = 0)
        => trial.now = ClampedMonthAfter(trial.date)

\* C13: for every frequency and every date, rolling back the advancement of the date
\* by one period gives the date again.
C13_RollbackRestores ==
    trial.steps = <<"advance", "rollback">> => trial.now = trial.date

\* -------------------------------------------------- a balance written two ways
\* the body of api.ts 212-222: name, type and balance, no order
AccountBodies == [id : {"a1"}, name : {"Main"}, type : {"current"}, balance : {2000, 700}]
CallPutAccount(limit) ==
    /\ CanIssue(limit)
    /\ \E b \in AccountBodies : Issue("PUT /api/accounts/:id", b, db, 0)
    /\ UNCHANGED app
PutAccount ==
    \E i \in ReqIds : Query_Send(i) \/ PutAccount_Order(i) \/ PutAccount_Update(i)
\* requests sent while others are running
NextBalance ==
    \/ CallPostTransaction(MaxInFlight)
    \/ CallPutAccount(MaxInFlight)
    \/ PostTransaction
    \/ PutAccount
InitBalance == InitServer({"monthly"}, {DateOf(2024, 3, 31)}, {0}) /\ InitNoApp
SpecBalance == InitBalance /\ [][NextBalance]_vars

IsPutAccount(i) == reqs[i].route = "PUT /api/accounts/:id"
\* the updateAccount of request i was answered with the row before the createTransaction
\* of request j was sent
WrittenBefore(i, j) ==
    /\ IsPutAccount(i) /\ reqs[i].pc = "done" /\ reqs[i].status = 200 /\ reqs[i].resp # Empty
    /\ ValidCreate(j) /\ reqs[j].pc = "done"
    /\ reqs[i].seq < reqs[j].seq
    /\ reqs[j].body.account_id = reqs[i].body.id
    /\ reqs[j].pre.accounts[reqs[i].body.id].balance = reqs[i].body.balance

\* C9: no update to a balance is lost: when an updateAccount wrote the account row and
\* a createTransaction on the same account came after it and was answered, the stored
\* balance is the balance written plus or minus the transaction's amount.
C9_NoLostUpdate ==
    \A i, j \in ReqIds :
        (WrittenBefore(i, j) /\ InFlight = {}) =>
            db.accounts[reqs[i].body.id].balance =
                reqs[i].body.balance + balanceChange(reqs[j].body.type, reqs[j].body.amount)

\* ------------------------------------------------- transactions that are not valid
\* bodies as a caller of the API sends them: an account that exists or one that does
\* not, an amount above zero, zero or below.  One call or one form at a time, when the
\* one before is over.
CreateBodies ==
    [id : {"t3"}, account_id : {"a1", "a9"}, amount : {0 - 300, 0, 300},
     type : {"expense"}, recurring_payment_id : {NULL}]
CallCreateTransaction(limit) ==
    /\ backendUp /\ Quiet
    /\ CanIssue(limit)
    /\ \E b \in CreateBodies : Issue("POST /api/transactions", b, db, 0)
    /\ UNCHANGED app
SubmitTransaction == Quiet /\ InFlight = {} /\ AddTransactionDialog_handleSubmit
NextCreate ==
    \/ CallCreateTransaction(1)
    \/ SubmitTransaction
    \/ AddTransaction
    \/ RefreshData
    \/ PostTransaction
    \/ ServerStarts
InitCreate == InitServer({"monthly"}, {DateOf(2024, 3, 31)}, {0}) /\ InitApp(BOOLEAN, {0})
SpecCreate == InitCreate /\ [][NextCreate]_vars

\* the account a createTransaction call names, under the key the server reads or the
\* key the client sends
AccountNamed(body) ==
    IF "account_id" \in DOMAIN body THEN body.account_id ELSE Field(body, "accountId")
\* a createTransaction call the specification turns down
InvalidCreate(i) ==
    /\ IsPost(i)
    /\ \/ AccountNamed(reqs[i].body) \notin DOMAIN reqs[i].pre.accounts
       \/ reqs[i].body.amount <= 0
\* C19: createTransaction is rejected, with balances and the transaction list
\* unchanged, when accountId references no existing account (not found) or when
\* amount <= 0 (validation): such a call is answered 404 or 400, what is stored is what
\* it was, the call has written nothing on its connection, and no transaction with an
\* amount of zero or less is shown.
C19_InvalidRejected ==
    /\ \A i \in ReqIds :
          (InvalidCreate(i) /\ reqs[i].pc = "done") =>
              /\ reqs[i].status \in {400, 404}
              /\ db = reqs[i].pre
              /\ clients[reqs[i].client].st # "leaked"
    /\ \A t \in DOMAIN ui.transactions : ui.transactions[t].amount > 0

\* a deleteTransaction call on an id no stored transaction has
DeleteOfNone(i) == IsDelete(i) /\ reqs[i].body.id \notin DOMAIN reqs[i].pre.transactions
\* C20: deleteTransaction of an id that does not exist fails with not-found and
\* changes no balance, no recurring payment and no transaction: the call is answered
\* 404 and what is stored, and read, is what it was before the call.
C20_DeleteNotFound ==
    \A i \in ReqIds :
        (DeleteOfNone(i) /\ Latest(i)) =>
            /\ reqs[i].status = 404
            /\ db = reqs[i].pre
            /\ CanRead /\ StoreRead = reqs[i].pre

\* ------------------------------------------------------------ accounts removed
\* One call at a time: deleteAccount from the browser, deleteTransaction from a caller
\* of the API.
DeleteAccount == \E k \in TaskIds : DeleteAccount_Delete(k) \/ DeleteAccount_Answered(k)
DeleteAccountRoute == \E i \in ReqIds : Query_Send(i) \/ DeleteAccount_Row(i)
CallDeleteAccount == Quiet /\ InFlight = {} /\ DeleteAccount_Called
UndoCalled == backendUp /\ Quiet /\ CallDeleteTransaction(1)
NextRemoval ==
    \/ CallDeleteAccount
    \/ UndoCalled
    \/ DeleteAccount
    \/ DeleteAccountRoute
    \/ DeleteTransaction
    \/ RefreshData
    \/ ServerStarts
InitRemoval == InitServer({"monthly"}, {DateOf(2024, 3, 31)}, {0}) /\ InitApp(BOOLEAN, {0})
SpecRemoval == InitRemoval /\ [][NextRemoval]_vars

\* task t is a deleteAccount call that has returned without throwing
Deleted(t) == t.op = "deleteAccount" /\ t.stack = <<>> /\ t.ret = "ok"
\* C21: after deleteAccount(id) completes, no transaction whose accountId is id remains,
\* in the store or in the client's transaction list, and the transactions of other
\* accounts are untouched: so it is at the step in which the call returns.
C21_DeleteCascades ==
    [][\A k \in TaskIds :
          (Deleted(tasks'[k]) /\ ~Deleted(tasks[k])) =>
              LET id == tasks'[k].arg.id
              IN  /\ \A t \in DOMAIN db'.transactions : db'.transactions[t].account_id # id
                  /\ \A t \in DOMAIN ui'.transactions : ui'.transactions[t].accountId # id
                  /\ \A t \in DOMAIN ui.transactions :
                        ui.transactions[t].accountId # id =>
                            /\ t \in DOMAIN ui'.transactions
                            /\ ui'.transactions[t] = ui.transactions[t]]_vars

\* ------------------------------------------------------------ debts and their limit
\* what a caller hands updateDebt: the balance alone, or the debt's fields with it
DebtEdits ==
    {[balance |-> 2000],
     [name |-> "Card", type |-> "credit_card", balance |-> 2000, creditLimit |-> 1000],
     [name |-> "Card", type |-> "credit_card", balance |-> 500, creditLimit |-> 1000]}
\* a user of the context calls updateDebt on a debt of the list
UpdateDebt_Called ==
    \E id \in DOMAIN ui.debts, debtData \in DebtEdits :
        /\ Quiet /\ CanSpawn(1)
        /\ tasks' = Spawned(<<Frame("updateDebt", "put", [id |-> id, debtData |-> debtData])>>,
                            [NoCall EXCEPT !.handler = "updateDebt", !.call = calls + 1])
        /\ calls' = calls + 1
        /\ UNCHANGED <<server, reqs, issued, backendUp, offline, ui, made, tzClient, trial>>
\* a caller of the API sends PUT /api/debts/:id
CallPutDebt ==
    /\ backendUp /\ Quiet /\ CanIssue(1)
    /\ \E b \in DebtEdits : Issue("PUT /api/debts/:id", Put(b, "id", "d1"), db, 0)
    /\ UNCHANGED app
NextDebts ==
    \/ UpdateDebt_Called
    \/ CallPutDebt
    \/ UpdateDebt
    \/ PutDebt
    \/ RefreshData
    \/ ServerStarts
InitDebtEdits == InitServer({"monthly"}, {DateOf(2024, 3, 31)}, {0}) /\ InitApp(BOOLEAN, {0})
SpecDebts == InitDebtEdits /\ [][NextDebts]_vars

getDay(n) == n % 7
\* the end of the period (AccountsSection.tsx 486-507, the same in TransferDialog.tsx
\* 186-207 and 324-345); an instant is counted in hours, so 23:59:59.999 is hour 23
endDate(frequency, resetDay, now, tz) ==
    LET f == YMD(LocalDay(now, tz))
        resetDayNum == IF resetDay \in {NoInt, 0} THEN 1 ELSE resetDay
        nextResetDate == LocalMidnight(MakeDay(f.y, f.m, resetDayNum), tz)
    IN  IF frequency = "monthly"
        THEN IF nextResetDate <= now
             THEN LocalMidnight(MakeDay(f.y, f.m + 1, resetDayNum), tz)
             ELSE nextResetDate
        ELSE IF frequency = "weekly"
        THEN now + ((7 - getDay(LocalDay(now, tz))) % 7) * 24
        ELSE LocalMidnight(LocalDay(now, tz), tz) + 23
\* the loop over the payments among ids (AccountsSection.tsx 509-524): income less
\* expenses of those due by the end of the period
incomeLessExpenses(recurringPayments, ids, end) ==
    LET due == {p \in ids : recurringPayments[p].nextPaymentDate <= end}
    IN  SumOver(due, [p \in due |->
                        IF recurringPayments[p].type = "income"
                        THEN recurringPayments[p].amount
                        ELSE 0 - recurringPayments[p].amount])
\* setProjectedBalances / setProjectedBalance
Shows(where, balance) == [trial EXCEPT !.shown[where] = balance]
\* AccountsSection.tsx 474-528: every payment of the context is looked at
AccountsSection_Effect ==
    /\ trial.shown["AccountsSection"] = NoInt
    /\ trial' =
          Shows("AccountsSection",
                trial.account.balance
                    + incomeLessExpenses(trial.recurringPayments, DOMAIN trial.recurringPayments,
                                         endDate(trial.account.frequency, trial.account.resetDay,
                                                 trial.now, tzClient)))
    /\ UNCHANGED <<server, reqs, issued, backendUp, offline, ui, tasks, made, tzClient, calls>>
\* TransferDialog.tsx 183-228: every payment of the context is looked at
calculateProjectedBalance ==
    /\ trial.shown["ProjectedBalanceCalculator"] = NoInt
    /\ trial' =
          Shows("ProjectedBalanceCalculator",
                trial.account.balance
                    + incomeLessExpenses(trial.recurringPayments, DOMAIN trial.recurringPayments,
                                         endDate(trial.account.frequency, trial.account.resetDay,
                                                 trial.now, tzClient)))
    /\ UNCHANGED <<server, reqs, issued, backendUp, offline, ui, tasks, made, tzClient, calls>>
\* TransferDialog.tsx 310-368: line 351 passes over the payments of other accounts
useProjectedBalance ==
    /\ trial.shown["useProjectedBalance"] = NoInt
    /\ trial' =
          Shows("useProjectedBalance",
                trial.account.balance
                    + incomeLessExpenses(trial.recurringPayments,
                                         {p \in DOMAIN trial.recurringPayments :
                                              trial.recurringPayments[p].accountId = trial.account.id},
                                         endDate(trial.account.frequency, trial.account.resetDay,
                                                 trial.now, tzClient)))
    /\ UNCHANGED <<server, reqs, issued, backendUp, offline, ui, tasks, made, tzClient, calls>>
ProjectionDates == {DateOf(2024, 3, 24), DateOf(2024, 4, 20)}
ProjectionPayments ==
    {[p \in ids |->
         CASE p = "r1" -> [accountId |-> "a1", type |-> "expense", amount |-> 300,
                           nextPaymentDate |-> LocalMidnight(d1, 0)]
           [] p = "r2" -> [accountId |-> "a2", type |-> "income", amount |-> 800,
                           nextPaymentDate |-> LocalMidnight(d2, 0)]
           [] OTHER -> [accountId |-> "a1", type |-> "income", amount |-> 500,
                        nextPaymentDate |-> LocalMidnight(DateOf(2024, 3, 25), 0)]] :
        ids \in SUBSET {"r1", "r2", "r3"}, d1 \in ProjectionDates, d2 \in ProjectionDates}
NextProjection == AccountsSection_Effect \/ calculateProjectedBalance \/ useProjectedBalance
InitProjection ==
    /\ InitServer({"monthly"}, {DateOf(2024, 3, 31)}, {0})
    /\ backendUp = TRUE /\ offline = FALSE /\ ui = EmptyUi /\ made = 0 /\ calls = 0
    /\ tasks = [k \in TaskIds |-> NoTask]
    /\ tzClient \in ClientZones
    /\ \E frequency \in {"daily", "weekly", "monthly"}, resetDay \in {NoInt, 15, 31},
          recurringPayments \in ProjectionPayments :
          trial = [account |-> [id |-> "a1", balance |-> 1000, frequency |-> frequency,
                                resetDay |-> resetDay],
                   recurringPayments |-> recurringPayments,
                   now |-> LocalMidnight(Today, tzClient) + 12,
                   shown |-> [w \in {"AccountsSection", "ProjectedBalanceCalculator",
                                     "useProjectedBalance"} |-> NoInt]]
SpecProjection == InitProjection /\ [][NextProjection]_vars

\* C23: for an account with a reset frequency the projected balance is the balance plus
\* the income less the expenses of the recurring payments of that account that are due
\* by the end of the period; the payments of other accounts never count.
C23_OwnPaymentsOnly ==
    \A w \in DOMAIN trial.shown :
        trial.shown[w] # NoInt =>
            trial.shown[w] =
                trial.account.balance
                    + incomeLessExpenses(
                          trial.recurringPayments,
                          {p \in DOMAIN trial.recurringPayments :
                               trial.recurringPayments[p].accountId = trial.account.id},
                          endDate(trial.account.frequency, trial.account.resetDay,
                                  trial.now, tzClient))

\* ------------------------------------------------------------ who moves the date
\* One thing at a time: the edit form, the skip button, an undo by a caller of the API.
EditPayment == Quiet /\ InFlight = {} /\ EditRecurringPaymentDialog_handleSubmit
SkipPayment == Quiet /\ InFlight = {} /\ handlePaymentSkipped
PutRecurringPayment ==
    \E i \in ReqIds :
        Query_Send(i) \/ PutRecurringPayment_Select(i) \/ PutRecurringPayment_Update(i)
NextEdits ==
    \/ EditPayment
    \/ SkipPayment
    \/ UndoCalled
    \/ UpdateRecurringPayment
    \/ PutRecurringPayment
    \/ DeleteTransaction
    \/ RefreshData
    \/ ServerStarts
InitEdits == InitServer({"monthly"}, {DateOf(2024, 3, 31)}, {0}) /\ InitApp(BOOLEAN, {0})
SpecEdits == InitEdits /\ [][NextEdits]_vars

\* the step ends an undo of a transaction linked to payment p
Undoes(i, p) ==
    /\ IsDelete(i) /\ reqs[i].pc # "done"
    /\ reqs'[i].pc = "done" /\ reqs'[i].status = 204
    /\ reqs[i].tx # Empty /\ reqs[i].tx.recurring_payment_id = p
HeldForever(c) == clients[c].st = "leaked"
\* request i waits in pool.connect() and no client will ever be released to it
Starved(i) == reqs[i].pc = "start" /\ NextClient = 0 /\ \A c \in ConnIds : HeldForever(c)
\* request i waits for the account row that a client held forever has written
LockedOut(i) ==
    /\ reqs[i].route = "POST /api/transactions" /\ reqs[i].pc = "update"
    /\ \E o \in ConnIds \ {reqs[i].client} :
           HeldForever(o) /\ reqs[i].body.account_id \in DOMAIN clients[o].w["accounts"]

\* C25: every call returns to its caller: after any number of createTransaction calls
\* a later createTransaction or deleteTransaction is still answered, no request waits
\* for a client or a row lock that an earlier request holds forever.
C25_EveryCallReturns == \A i \in ReqIds : ~Starved(i) /\ ~LockedOut(i)

\* ------------------------------------------------- a transaction made and undone
\* One transaction put through the two balance adjustments of the server: the UPDATE of
\* POST /api/transactions (index.js 496-501), then the reversal of
\* DELETE /api/transactions/:id (index.js 523-528) for the row the POST wrote.
AdjustedBalances == 0 .. 11
AdjustedAmounts == {1, 300, 800, 1200}
Adjusted(step, now) ==
    /\ trial' = [trial EXCEPT !.steps = Append(@, step), !.now = now]
    /\ UNCHANGED <<server, reqs, issued, backendUp, offline, ui, tasks, made, tzClient, calls>>
CreateAdjusts ==
    /\ trial.steps = <<>>
    /\ Adjusted("create", trial.now + balanceChange(trial.tx.type, trial.tx.amount))
DeleteAdjusts ==
    /\ trial.steps = <<"create">>
    /\ Adjusted("delete", reversedBalance(trial.now, trial.tx))
NextAdjust == CreateAdjusts \/ DeleteAdjusts
InitAdjust ==
    /\ InitServer({"monthly"}, {DateOf(2024, 3, 31)}, {0})
    /\ backendUp = TRUE /\ offline = FALSE /\ ui = EmptyUi /\ made = 0 /\ calls = 0
    /\ tasks = [k \in TaskIds |-> NoTask]
    /\ tzClient = 0
    /\ \E balance \in AdjustedBalances, type \in TxTypes, amount \in AdjustedAmounts :
          trial = [balance |-> balance * 100, tx |-> [type |-> type, amount |-> amount],
                   steps |-> <<>>, now |-> balance * 100]
SpecAdjust == InitAdjust /\ [][NextAdjust]_vars

\* C26: for every type of transaction (income, expense, transfer) the adjustment of
\* deleteTransaction is the negation of the adjustment of createTransaction: a
\* transaction made and then deleted leaves the balance where it was.
C26_DeleteNegatesCreate ==
    trial.steps = <<"create", "delete">> => trial.now = trial.balance

\* ------------------------------------------------------- an account updated in part
\* One stored account with all the columns of index.js 117-130, and one call of the
\* context's updateAccount with some of the fields of an Account.
AccountKeys ==
    {"name", "type", "balance", "interestRate", "apiKey", "frequency", "resetDay", "pieId",
     "tradingResult", "order"}
Column(key) ==
    CASE key = "interestRate" -> "interest_rate" [] key = "apiKey" -> "api_key"
      [] key = "resetDay" -> "reset_day" [] key = "pieId" -> "pie_id"
      [] key = "tradingResult" -> "trading_result" [] OTHER -> key
\* x || null (index.js 411): 0 and the empty string go to NULL as undefined does
OrNullN(x) == IF x = 0 THEN NoInt ELSE x
OrNull(x) == IF x = "" THEN NULL ELSE x
\* AccountContext.tsx 231-242 and api.ts 212-222: every field is named, JSON.stringify
\* leaves out the ones that are undefined
updateAccountBody(accountData) ==
    [key \in (DOMAIN accountData) \cap AccountKeys |-> accountData[key]]
\* index.js 395-412: the row the UPDATE writes; it fails on a NULL name, type or balance
PutAccountStatus(body) ==
    IF Field(body, "name") = NULL \/ Field(body, "type") = NULL \/ FieldN(body, "balance") = NoInt
    THEN 500 ELSE 200
PutAccountRow(current, body) ==
    IF PutAccountStatus(body) = 500 THEN current
    ELSE [name |-> body.name, type |-> body.type, balance |-> body.balance,
          interest_rate |-> OrNullN(FieldN(body, "interestRate")),
          api_key |-> OrNull(Field(body, "apiKey")),
          frequency |-> OrNull(Field(body, "frequency")),
          reset_day |-> OrNullN(FieldN(body, "resetDay")),
          pie_id |-> OrNull(Field(body, "pieId")),
          trading_result |-> OrNullN(FieldN(body, "tradingResult")),
          order |-> IF FieldN(body, "order") = NoInt THEN current.order ELSE body.order]
\* convertApiAccount (AccountContext.tsx 93-106), a NULL column is an undefined field
AccountShown(row) ==
    [name |-> row.name, type |-> row.type, balance |-> row.balance,
     interestRate |-> OrNullN(row.interest_rate), apiKey |-> OrNull(row.api_key),
     frequency |-> row.frequency, resetDay |-> OrNullN(row.reset_day),
     pieId |-> OrNull(row.pie_id), tradingResult |-> OrNullN(row.trading_result),
     order |-> IF row.order = NoInt THEN 0 ELSE row.order]
\* the fields of a record that are defined
Defined(rec) ==
    {key \in DOMAIN rec : IF key \in {"balance", "interestRate", "resetDay", "tradingResult", "order"}
                           THEN rec[key] # NoInt ELSE rec[key] # NULL}
Supplied(rec) == [key \in Defined(rec) |-> rec[key]]
\* EditAccountDialog.handleSubmit (part_002 233-275) for the account shown and the name typed
updatedData(account, name) ==
    Supplied([name |-> name, type |-> account.type, balance |-> account.balance,
              interestRate |-> account.interestRate, apiKey |-> account.apiKey,
              frequency |-> account.frequency, resetDay |-> account.resetDay])
PartUpdated(step, accountData) ==
    [trial EXCEPT !.steps = <<step>>, !.accountData = accountData,
                  !.status = PutAccountStatus(updateAccountBody(accountData)),
                  !.now = PutAccountRow(trial.row, updateAccountBody(accountData))]
\* some fields of an account given new values
PartialAccounts ==
    {[key \in keys |->
        CASE key = "name" -> "Renamed" [] key = "type" -> "investment"
          [] key = "balance" -> 2000 [] key = "interestRate" -> 300
          [] key = "pieId" -> "pie2" [] OTHER -> 5] :
     keys \in SUBSET {"name", "type", "balance", "interestRate", "pieId", "order"}}
UpdateAccount_Part ==
    /\ trial.steps = <<>>
    /\ \E accountData \in PartialAccounts : trial' = PartUpdated("updateAccount", accountData)
    /\ UNCHANGED <<server, reqs, issued, backendUp, offline, ui, tasks, made, tzClient, calls>>
EditAccountDialog_handleSubmit ==
    /\ trial.steps = <<>>
    /\ trial' = PartUpdated("EditAccountDialog.handleSubmit",
                            updatedData(AccountShown(trial.row), "Renamed"))
    /\ UNCHANGED <<server, reqs, issued, backendUp, offline, ui, tasks, made, tzClient, calls>>
NextPart == UpdateAccount_Part \/ EditAccountDialog_handleSubmit
InitPart ==
    /\ InitServer({"monthly"}, {DateOf(2024, 3, 31)}, {0})
    /\ backendUp = TRUE /\ offline = FALSE /\ ui = EmptyUi /\ made = 0 /\ calls = 0
    /\ tasks = [k \in TaskIds |-> NoTask]
    /\ tzClient = 0
    /\ \E interest_rate \in {NoInt, 250}, frequency \in {NULL, "monthly"},
          pie_id \in {NULL, "pie1"}, trading_result \in {NoInt, 4200}, order \in {0, 2} :
          trial = [row |-> [name |-> "Main", type |-> "investment", balance |-> 1000,
                            interest_rate |-> interest_rate, api_key |-> NULL,
                            frequency |-> frequency,
                            reset_day |-> IF frequency = NULL THEN NoInt ELSE 15,
                            pie_id |-> pie_id, trading_result |-> trading_result,
                            order |-> order],
                   accountData |-> Empty, steps |-> <<>>, status |-> 0,
                   now |-> Empty]
SpecPart == InitPart /\ [][NextPart]_vars

\* C27: updateAccount with some of the fields changes only the fields supplied: every
\* column of the stored account whose field the caller did not supply keeps the value
\* it had, so a rename changes neither the balance nor the other settings.
C27_OnlySuppliedChange ==
    trial.steps # <<>> =>
        \A key \in AccountKeys \ DOMAIN trial.accountData :
            trial.now[Column(key)] = trial.row[Column(key)]

\* ------------------------------------------------------- two payments of one debt
\* a payDebt call that is over, its updateDebt answered
Paid(t) == t.op = "payDebt" /\ t.ret = "ok" /\ (t.stack = <<>> \/ HasPaid(t))
\* the balance of its debt in the list the call was made with
DebtSeen(t) == t.arg.debts[t.arg.debtId].balance

\* C28: two payDebt calls on one debt, one after the other or at the same time, leave
\* the debt at max(0, b - a1 - a2), b being the balance before both: when the
\* updateDebt of the second returns, the debt shown is the balance the earlier call
\* saw less both amounts, not below zero.
C28_BothPaymentsCount ==
    [][\A j, k \in TaskIds :
          (/\ j # k /\ Paid(tasks[j])
           /\ HasPaid(tasks'[k]) /\ ~HasPaid(tasks[k])
           /\ tasks[j].arg.debtId = tasks'[k].arg.debtId)
          => ui'.debts[tasks[j].arg.debtId].balance =
                 Max(0, Max(DebtSeen(tasks[j]), DebtSeen(tasks'[k]))
                            - tasks[j].arg.amount - tasks'[k].arg.amount)]_vars

\* ---------------------------------------------------------- the order of accounts
\* One call at a time: an account added from the form, an account deleted.
AddAccount == \E k \in TaskIds : AddAccount_Post(k) \/ AddAccount_Answered(k)
AccountRoutes ==
    \E i \in ReqIds : Query_Send(i) \/ PostAccount_Insert(i) \/ DeleteAccount_Row(i)
SubmitAccount == Quiet /\ InFlight = {} /\ AddAccountDialog_handleSubmit
NextOrder ==
    \/ SubmitAccount
    \/ CallDeleteAccount
    \/ AddAccount
    \/ DeleteAccount
    \/ AccountRoutes
    \/ RefreshData
    \/ ServerStarts
InitOrder == InitServer({"monthly"}, {DateOf(2024, 3, 31)}, {0}) /\ InitApp(BOOLEAN, {0})
SpecOrder == InitOrder /\ [][NextOrder]_vars

\* C29: after any sequence of addAccount and deleteAccount calls no two accounts have
\* the same display order: no two stored accounts share a value of the order column.
C29_DistinctOrders ==
    \A a, b \in DOMAIN db.accounts :
        a # b => db.accounts[a].order # db.accounts[b].order

\* ------------------------------------------------------------------ offline mode
\* The page is opened with the server down or up; the forms and the context's
\* functions are used one at a time; the server may be started meanwhile.
CallUpdateDebt == InFlight = {} /\ UpdateDebt_Called
OfflineRoutes ==
    \E i \in ReqIds :
        \/ Query_Send(i)
        \/ PostAccount_Insert(i)
        \/ DeleteAccount_Row(i)
        \/ PutDebt_Update(i)
NextOffline ==
    \/ SubmitAccount
    \/ SubmitTransaction
    \/ CallDeleteAccount
    \/ CallUpdateDebt
    \/ AddAccount
    \/ AddTransaction
    \/ DeleteAccount
    \/ UpdateDebt
    \/ RefreshData
    \/ OfflineRoutes
    \/ PostTransaction
    \/ ServerStarts
InitOffline == InitServer({"monthly"}, {DateOf(2024, 3, 31)}, {0}) /\ InitApp(BOOLEAN, {0})
SpecOffline == InitOffline /\ [][NextOffline]_vars

\* the four lists as the backend holds them
BackendData ==
    [l \in DOMAIN ui |->
        [id \in DOMAIN db[TableOf(l)] |-> Convert(l, ApiRow(TableOf(l), db[TableOf(l)][id]))]]
\* the refreshData of task k ends in this step
RefreshOver(k) ==
    /\ At(k, "refreshData", "get")
    /\ Len(tasks'[k].stack) < Len(tasks[k].stack)
\* C30: while the API service is in offline mode no create, update or delete reaches
\* the backend and what the backend holds stays as it is; every refreshData evaluates
\* the mode anew, so the refresh that follows a health check that succeeded shows the
\* data of the backend, not the mock data.
C30_OfflineStaysLocal ==
    /\ [][offline => (issued' = issued /\ reqs' = reqs /\ db' = db /\ clients' = clients)]_vars
    /\ [][\A k \in TaskIds :
             (/\ At(k, "refreshData", "check") /\ ~At(k, "refreshData", "check")')
             => offline' = ~backendUp]_vars
    /\ [][\A k \in TaskIds : (RefreshOver(k) /\ ~offline) => ui' = BackendData]_vars

====
